---- MODULE Spec2Model ----
(***************************************************************************)
(* A model of the fractal-tape glyph codec: the trie codec, the grammar    *)
(* DAG with its base-3 address allocation and pair induction, the          *)
(* Sierpinski address space, the phrase miner and layered glyph training.  *)
(*                                                                         *)
(* Strings are modelled as sequences of one-character strings, so that a   *)
(* raw token, a glyph and a base-3 symbol are values of one kind and       *)
(* s.length, s[i], s + t and s === t are Len, indexing, \o and =.          *)
(***************************************************************************)
EXTENDS Integers, Sequences, FiniteSets, TLC

VARIABLES
    \* trie codec (trie.ts)
    entries, words, tokens, decoded, tpc,
    \* grammar DAG and pair induction (grammar.ts, path.ts, repair.ts)
    grammar, currentStream, iterations, maxIterations, newSymbol, caller, budget, created, errors, original, expanded, gpc,
    \* Sierpinski address space (sierpinski.ts, tape-core utils.ts)
    code, point, inverse, coreInverse, apc,
    \* layered glyph training (tape-web glyphDict.ts)
    text, layerDepth, top, seed, now, CURRENT, currentText, layer, run, firstRun, lpc,
    \* phrase miner (minePhrases.ts)
    sequence, nMin, nMax, candidates, other, otherCandidates, mpc,
    \* tape store and ingestion (store.ts, encode.ts)
    dbTokens, dbPostings, dbDocBounds, dbGlyphDict,
    docs, glyphs, addr, doc, pre, post, stats, passes, spc,
    \* tokenizer (tokenize.ts)
    input, output, again, kpc,
    \* container (tape-cli cli.ts)
    packed, stdin, unpacked, ppc,
    \* replacePair: the arguments of the call, the returned stream, and
    \* the position of the caller
    given, replaced, rpc,
    \* train (tape-core bitmap.ts): the text and the options of the call,
    \* the returned entries, the encoded and the decoded words
    tape, options, trained, squeezed, restored, epc,
    \* path codec (mdl.ts): the path, its varint bytes, the decoded path
    route, varint, decodedPath, vpc

tvars == <<entries, words, tokens, decoded, tpc>>
gvars == <<grammar, currentStream, iterations, maxIterations, newSymbol, caller, budget, created, errors, original, expanded, gpc>>
avars == <<code, point, inverse, coreInverse, apc>>
lvars == <<text, layerDepth, top, seed, now, CURRENT, currentText, layer, run, firstRun, lpc>>
mvars == <<sequence, nMin, nMax, candidates, other, otherCandidates, mpc>>
svars == <<dbTokens, dbPostings, dbDocBounds, dbGlyphDict,
           docs, glyphs, addr, doc, pre, post, stats, passes, spc>>
pvars == <<packed, stdin, unpacked, ppc>>
kvars == <<input, output, again, kpc>>
rvars == <<given, replaced, rpc>>
evars == <<tape, options, trained, squeezed, restored, epc>>
cvars == <<route, varint, decodedPath, vpc>>
vars == <<tvars, gvars, avars, lvars, mvars, svars, pvars, kvars, rvars, evars, cvars>>

\* what an operation of one component leaves alone
exceptTrie == <<gvars, avars, lvars, mvars, svars, pvars, kvars, rvars, evars, cvars>>
exceptGrammar == <<tvars, avars, lvars, mvars, svars, pvars, kvars, rvars, evars, cvars>>
exceptAddress == <<tvars, gvars, lvars, mvars, svars, pvars, kvars, rvars, evars, cvars>>
exceptLayers == <<tvars, gvars, avars, mvars, svars, pvars, kvars, rvars, evars, cvars>>
exceptMiner == <<tvars, gvars, avars, lvars, svars, pvars, kvars, rvars, evars, cvars>>
exceptStore == <<tvars, gvars, avars, lvars, mvars, pvars, kvars, rvars, evars, cvars>>
exceptPack == <<tvars, gvars, avars, lvars, mvars, svars, kvars, rvars, evars, cvars>>
exceptTokenizer == <<tvars, gvars, avars, lvars, mvars, svars, pvars, rvars, evars, cvars>>
exceptReplace == <<tvars, gvars, avars, lvars, mvars, svars, pvars, kvars, evars, cvars>>
exceptTrain == <<tvars, gvars, avars, lvars, mvars, svars, pvars, kvars, rvars, cvars>>
exceptCodec == <<tvars, gvars, avars, lvars, mvars, svars, pvars, kvars, rvars, evars>>

(***************************************************************************)
(* Generic helpers                                                         *)
(***************************************************************************)
Max(a, b) == IF a >= b THEN a ELSE b
Min(a, b) == IF a <= b THEN a ELSE b

\* All sequences over S of length lo..hi
SeqsOf(S, lo, hi) == UNION {[1..n -> S] : n \in lo..hi}

\* The sequence f, written out element by element
Listed(f) == SubSeq(f, 1, Len(f))

\* JavaScript truthiness of a string: the empty string is falsy
Truthy(s) == Len(s) > 0

(***************************************************************************)
(* Trie codec: packages/tape-core/src/trie.ts                              *)
(***************************************************************************)
\* { kids: new Map() }: the root alone, no terminal glyph anywhere.  A trie
\* is the set of its nodes, each named by the token path from the root, and
\* the partial map from nodes to their terminal glyph.
EmptyTrie == [nodes |-> {<<>>}, glyph |-> [p \in {} |-> <<>>]]

\* One iteration of build's outer loop: create the path of entry.phrase
\* and set the glyph of its last node (overwriting an earlier one).
insertEntry(trie, entry) ==
    [nodes |-> trie.nodes \cup {SubSeq(entry.phrase, 1, k) : k \in 0..Len(entry.phrase)},
     glyph |-> (entry.phrase :> entry.glyph) @@ trie.glyph]

RECURSIVE buildFrom(_, _, _)
buildFrom(es, k, trie) ==
    IF k > Len(es) THEN trie ELSE buildFrom(es, k + 1, insertEntry(trie, es[k]))

build(es) == buildFrom(es, 1, EmptyTrie)

\* lastMatch = null
NoMatch == [len |-> 0, glyph |-> <<>>]

\* (mutant) the walk stops at the first glyph-bearing node: shortest match
RECURSIVE walkShortest(_, _, _, _, _, _)
walkShortest(ws, trie, i, j, node, lastMatch) ==
    IF j > Len(ws) THEN lastMatch
    ELSE LET kid == Append(node, ws[j]) IN
         IF kid \notin trie.nodes THEN lastMatch
         ELSE IF kid \in DOMAIN trie.glyph /\ Truthy(trie.glyph[kid])
              THEN [len |-> j - i + 1, glyph |-> trie.glyph[kid]]
              ELSE walkShortest(ws, trie, i, j + 1, kid, lastMatch)

\* encode's inner loop from scan position i (1-based), at index j, standing
\* on trie node `node`, with the last glyph-bearing node seen in lastMatch.
RECURSIVE walk(_, _, _, _, _, _)
walk(ws, trie, i, j, node, lastMatch) ==
    IF j > Len(ws) THEN lastMatch
    ELSE LET kid == Append(node, ws[j]) IN
         IF kid \notin trie.nodes THEN lastMatch
         ELSE walk(ws, trie, i, j + 1, kid,
                   IF kid \in DOMAIN trie.glyph /\ Truthy(trie.glyph[kid])
                   THEN [len |-> j - i + 1, glyph |-> trie.glyph[kid]]
                   ELSE lastMatch)

\* (mutant) the scan advances by one token after a match
advanceByOne(lastMatch) == 1

\* encode: `i += lastMatch.len` after a match
advance(lastMatch) == lastMatch.len

RECURSIVE encodeFrom(_, _, _)
encodeFrom(ws, trie, i) ==
    IF i > Len(ws) THEN <<>>
    ELSE LET lastMatch == walk(ws, trie, i, i, <<>>, NoMatch) IN
         IF lastMatch.len > 0
         THEN <<lastMatch.glyph>> \o encodeFrom(ws, trie, i + advance(lastMatch))
         ELSE <<ws[i]>> \o encodeFrom(ws, trie, i + 1)

encode(ws, trie) == encodeFrom(ws, trie, 1)

\* decode's glyphToPhrase map: later entries overwrite earlier ones
RECURSIVE glyphToPhraseFrom(_, _, _)
glyphToPhraseFrom(es, k, m) ==
    IF k > Len(es) THEN m
    ELSE glyphToPhraseFrom(es, k + 1, (es[k].glyph :> es[k].phrase) @@ m)

glyphToPhrase(es) == glyphToPhraseFrom(es, 1, [g \in {} |-> <<>>])

RECURSIVE decodeFrom(_, _, _)
decodeFrom(ts, m, k) ==
    IF k > Len(ts) THEN <<>>
    ELSE (IF ts[k] \in DOMAIN m THEN m[ts[k]] ELSE <<ts[k]>>) \o decodeFrom(ts, m, k + 1)

decode(ts, es) == decodeFrom(ts, glyphToPhrase(es), 1)

(***************************************************************************)
(* Base-3 paths: packages/tape-core/src/mdl.ts (path.ts part, 170-252)     *)
(***************************************************************************)
Pow3(d) == 3 ^ d

\* (n % 3).toString()
DigitChar(d) == <<"0", "1", "2">>[d + 1]

\* '0'.repeat(k)
RECURSIVE Zeros(_)
Zeros(k) == IF k <= 0 THEN <<>> ELSE <<"0">> \o Zeros(k - 1)

\* toBase3: the digit loop `while (n > 0)`
RECURSIVE base3Digits(_, _)
base3Digits(n, result) ==
    IF n > 0 THEN base3Digits(n \div 3, <<DigitChar(n % 3)>> \o result) ELSE result

\* toBase3: `while (result.length < minLength) result = '0' + result`
padLeft(result, minLength) == Zeros(minLength - Len(result)) \o result

toBase3(n, minLength) ==
    IF n = 0 THEN Zeros(minLength) ELSE padLeft(base3Digits(n, <<>>), minLength)

\* The outcome of a call that may throw
Returned(v) == [threw |-> FALSE, value |-> v]
Thrown == [threw |-> TRUE, value |-> <<>>]

\* nextPath: the while loop, entered with the current candidate and counter
RECURSIVE nextPathLoop(_, _, _, _)
nextPathLoop(usedPaths, depth, counter, candidate) ==
    IF candidate \notin usedPaths THEN Returned(candidate)
    ELSE LET c == counter + 1 IN
         IF c > Pow3(depth) THEN Thrown
         ELSE nextPathLoop(usedPaths, depth, c, toBase3(c, depth))

nextPath(usedPaths, depth) == nextPathLoop(usedPaths, depth, 0, toBase3(0, depth))

\* nextAvailablePath: `while (usedPaths.has(candidate)) { depth++; ... }`
RECURSIVE nextAvailableLoop(_, _, _)
nextAvailableLoop(usedPaths, depth, r) ==
    IF r.threw THEN r
    ELSE IF r.value \in usedPaths
         THEN nextAvailableLoop(usedPaths, depth + 1, nextPath(usedPaths, depth + 1))
         ELSE r

nextAvailablePath(usedPaths) == nextAvailableLoop(usedPaths, 1, nextPath(usedPaths, 1))

(***************************************************************************)
(* Grammar DAG: packages/tape-core/src/encode.ts (grammar.ts part, 51-323) *)
(* and packages/tape-core/src/mdl.ts (createGrammar, addRule)              *)
(***************************************************************************)
\* A Grammar: rules is the Map symbol -> Rule, symbols the Set of defined
\* symbols in insertion order (the order in which a JavaScript Set iterates).
createGrammar == [rules |-> [s \in {} |-> <<>>], symbols |-> <<>>, depth |-> 0]

SetOf(seq) == {seq[k] : k \in DOMAIN seq}

createRule(symbol, children, expansion, frequency) ==
    [symbol |-> symbol, children |-> children, expansion |-> expansion,
     gain |-> 0, frequency |-> frequency]

\* (mutant) the depth is the length of the symbol added last
lengthOfLast(depth, length) == length

\* Math.max(grammar.depth, rule.symbol.length)
maxDepth(depth, length) == Max(depth, length)

\* (mutant) a rule with a registered symbol takes the place of the old one
addRuleOverwriting(g, rule) ==
    [ok |-> rule.symbol \notin SetOf(g.symbols),
     grammar |-> [rules |-> (rule.symbol :> rule) @@ g.rules,
                  symbols |-> IF rule.symbol \in SetOf(g.symbols) THEN g.symbols
                              ELSE Append(g.symbols, rule.symbol),
                  depth |-> maxDepth(g.depth, Len(rule.symbol))]]

\* addRule: the pair (returned boolean, grammar afterwards)
addRule(g, rule) ==
    IF rule.symbol \in SetOf(g.symbols)
    THEN [ok |-> FALSE, grammar |-> g]
    ELSE [ok |-> TRUE,
          grammar |-> [rules |-> (rule.symbol :> rule) @@ g.rules,
                       symbols |-> Append(g.symbols, rule.symbol),
                       depth |-> maxDepth(g.depth, Len(rule.symbol))]]

\* the value `null`
Null == <<"null">>

\* defineSymbol: threw (the exception of nextPath propagates), else the
\* returned symbol or Null, and the grammar afterwards
defineSymbol(g, children, expansion, frequency) ==
    LET r == nextAvailablePath(SetOf(g.symbols)) IN
    IF r.threw THEN [threw |-> TRUE, symbol |-> Null, grammar |-> g]
    ELSE LET a == addRule(g, createRule(r.value, children, expansion, frequency)) IN
         [threw |-> FALSE,
          symbol |-> IF a.ok THEN r.value ELSE Null,
          grammar |-> a.grammar]

\* (mutant) a visited symbol stays on the recursion stack
stay(recStack, symbol) == recStack

\* expandSymbol: the recursion over rule.children.  calls holds the symbols
\* whose expansion is under way: expanding one of them again recurses without
\* end, until the call stack is used up and a RangeError is thrown
RECURSIVE expandSymbolWithin(_, _, _)
RECURSIVE expandChildren(_, _, _, _)
expandSymbolWithin(g, symbol, calls) ==
    IF symbol \notin DOMAIN g.rules THEN Returned(<<symbol>>)
    ELSE IF symbol \in calls THEN Thrown
    ELSE expandChildren(g, g.rules[symbol].children, 1, calls \cup {symbol})

expandChildren(g, children, k, calls) ==
    IF k > Len(children) THEN Returned(<<>>)
    ELSE LET first == expandSymbolWithin(g, children[k], calls) IN
         IF first.threw THEN Thrown
         ELSE LET rest == expandChildren(g, children, k + 1, calls) IN
              IF rest.threw THEN Thrown ELSE Returned(first.value \o rest.value)

expandSymbol(g, symbol) == expandSymbolWithin(g, symbol, {})

RECURSIVE expandStreamFrom(_, _, _)
expandStreamFrom(g, stream, k) ==
    IF k > Len(stream) THEN Returned(<<>>)
    ELSE LET first == expandSymbol(g, stream[k]) IN
         IF first.threw THEN Thrown
         ELSE LET rest == expandStreamFrom(g, stream, k + 1) IN
              IF rest.threw THEN Thrown ELSE Returned(first.value \o rest.value)

expandStream(g, stream) == expandStreamFrom(g, stream, 1)

\* hasCycle: recStack.delete(symbol)
leave(recStack, symbol) == recStack \ {symbol}

\* hasCycles: the depth-first search.  st = [found, visited, recStack]
RECURSIVE hasCycle(_, _, _)
RECURSIVE hasCycleChildren(_, _, _, _)
hasCycle(g, symbol, st) ==
    IF symbol \in st.recStack THEN [st EXCEPT !.found = TRUE]
    ELSE IF symbol \in st.visited THEN st
    ELSE LET st1 == [st EXCEPT !.visited = @ \cup {symbol}, !.recStack = @ \cup {symbol}]
             st2 == IF symbol \in DOMAIN g.rules
                    THEN hasCycleChildren(g, g.rules[symbol].children, 1, st1)
                    ELSE st1
         IN IF st2.found THEN st2 ELSE [st2 EXCEPT !.recStack = leave(@, symbol)]

hasCycleChildren(g, children, k, st) ==
    IF k > Len(children) THEN st
    ELSE LET st1 == hasCycle(g, children[k], st) IN
         IF st1.found THEN st1 ELSE hasCycleChildren(g, children, k + 1, st1)

RECURSIVE hasCyclesFrom(_, _, _)
hasCyclesFrom(g, k, st) ==
    IF k > Len(g.symbols) THEN FALSE
    ELSE LET st1 == hasCycle(g, g.symbols[k], st) IN
         IF st1.found THEN TRUE ELSE hasCyclesFrom(g, k + 1, st1)

hasCycles(g) == hasCyclesFrom(g, 1, [found |-> FALSE, visited |-> {}, recStack |-> {}])

\* isValidPath: /^[012]+$/
isValidPath(path) == Len(path) >= 1 /\ \A k \in DOMAIN path : path[k] \in {"0", "1", "2"}

\* validateGrammar: the errors of the children of one rule, from child k on
RECURSIVE undefinedChildren(_, _, _)
undefinedChildren(g, rule, k) ==
    IF k > Len(rule.children) THEN <<>>
    ELSE (IF rule.children[k] \notin SetOf(g.symbols) /\ ~isValidPath(rule.children[k])
          THEN <<[kind |-> "undefined symbol", symbol |-> rule.symbol, child |-> rule.children[k]]>>
          ELSE <<>>)
         \o undefinedChildren(g, rule, k + 1)

\* validateGrammar: the loop over grammar.rules, in the order the rules were set
RECURSIVE undefinedSymbols(_, _)
undefinedSymbols(g, k) ==
    IF k > Len(g.symbols) THEN <<>>
    ELSE undefinedChildren(g, g.rules[g.symbols[k]], 1) \o undefinedSymbols(g, k + 1)

\* validateGrammar: the loop over grammar.symbols with the set `seen`
RECURSIVE duplicateSymbols(_, _)
duplicateSymbols(g, k) ==
    IF k > Len(g.symbols) THEN <<>>
    ELSE (IF g.symbols[k] \in {g.symbols[j] : j \in 1..(k - 1)}
          THEN <<[kind |-> "duplicate symbol", symbol |-> g.symbols[k], child |-> Null]>>
          ELSE <<>>)
         \o duplicateSymbols(g, k + 1)

\* validateGrammar: the errors in the order they are pushed
validateGrammar(g) ==
    (IF hasCycles(g) THEN <<[kind |-> "cycles", symbol |-> Null, child |-> Null]>> ELSE <<>>)
    \o undefinedSymbols(g, 1)
    \o duplicateSymbols(g, 1)

(***************************************************************************)
(* Pair induction: packages/tape-core/src/repair.ts                        *)
(***************************************************************************)
\* findMostFrequentPair: the number of positions i with
\* stream[i] = left and stream[i+1] = right
pairFrequency(stream, left, right) ==
    Cardinality({i \in 1..(Len(stream) - 1) : stream[i] = left /\ stream[i + 1] = right})

\* findMostFrequentPair: the scan `for (const [pair, frequency] of freq)`
\* over the keys in insertion order, i.e. in order of first occurrence;
\* a later key replaces the best one only with a strictly greater frequency
RECURSIVE bestPairFrom(_, _, _)
bestPairFrom(stream, i, best) ==
    IF i > Len(stream) - 1 THEN best
    ELSE LET f == pairFrequency(stream, stream[i], stream[i + 1]) IN
         bestPairFrom(stream, i + 1,
                      IF f > best.frequency
                      THEN [left |-> stream[i], right |-> stream[i + 1], frequency |-> f, gain |-> 0]
                      ELSE best)

NoPair == [left |-> <<>>, right |-> <<>>, frequency |-> 0, gain |-> 0]

\* findMostFrequentPair: NoPair stands for null (freq.size === 0)
findMostFrequentPair(stream) == bestPairFrom(stream, 1, NoPair)

\* (mutant) the scan goes on at the right token of the pair
skipOne(i) == i + 1

\* replacePair: `i += 2; // Skip both symbols`
skipBoth(i) == i + 2

RECURSIVE replacePairFrom(_, _, _, _)
replacePairFrom(stream, pair, sym, i) ==
    IF i > Len(stream) THEN <<>>
    ELSE IF i < Len(stream) /\ stream[i] = pair.left /\ stream[i + 1] = pair.right
         THEN <<sym>> \o replacePairFrom(stream, pair, sym, skipBoth(i))
         ELSE <<stream[i]>> \o replacePairFrom(stream, pair, sym, i + 1)

\* (mutant) the stream is returned as it was given
keepStream(stream, pair, sym) == stream

replacePair(stream, pair, sym) == replacePairFrom(stream, pair, sym, 1)

calculatePairGain(pair, frequency, symbolSize, lambda) ==
    LET originalSize == (Len(pair.left) + Len(pair.right) + 1) * frequency
        compressedSize == symbolSize * frequency
        ruleCost == 3 + symbolSize + 2
    IN (originalSize - compressedSize) - (ruleCost * lambda)

\* tryDefinePair: `const symbolSize = 2`
AssumedSymbolSize == 2

tryDefinePair(g, pair, frequency, lambda) ==
    IF calculatePairGain(pair, frequency, AssumedSymbolSize, lambda) <= 0
    THEN [threw |-> FALSE, symbol |-> Null, grammar |-> g]
    ELSE defineSymbol(g, <<pair.left, pair.right>>, <<pair.left, pair.right>>, frequency)

\* (mutant) no pair is too rare for Sequitur
neverTooRare(frequency) == FALSE

\* runSequitur: pair.frequency < 2
tooRare(frequency) == frequency < 2

\* runHybridInduction: Math.floor(maxIterations * 0.7) in double precision,
\* for maxIterations up to 200; the product falls just short of the whole
\* number 63, 119 and 126
repairShare(n) == IF n \in {90, 170, 180} THEN ((7 * n) \div 10) - 1 ELSE (7 * n) \div 10

\* lambda: number = 1.0
DefaultLambda == 1
\* maxIterations: number = 100
DefaultMaxIterations == 100

(***************************************************************************)
(* Sierpinski address space: unnamed/part_000 (sierpinski.ts) and          *)
(* packages/tape-core/src/encode.ts (utils.ts part, 410-510)               *)
(*                                                                         *)
(* Coordinates are exact rationals held as integers: a point [x, y] of the *)
(* model stands for (x / (2*Unit), y * SQRT3 / (2*Unit)), so that the      *)
(* corners are A = [0, 0], B = [2*Unit, 0], C = [Unit, Unit], and every    *)
(* midpoint down to MaxDepth levels and every centroid is an integer pair. *)
(* A product of two y coordinates carries the factor SQRT3^2 = 3.          *)
(***************************************************************************)
MaxDepth == 4
Unit == 3 * (2 ^ MaxDepth)

A == [x |-> 0, y |-> 0]
B == [x |-> 2 * Unit, y |-> 0]
C == [x |-> Unit, y |-> Unit]

midpoint(p, q) == [x |-> (p.x + q.x) \div 2, y |-> (p.y + q.y) \div 2]
centroid(p, q, r) == [x |-> (p.x + q.x + r.x) \div 3, y |-> (p.y + q.y + r.y) \div 3]

\* v.x*w.x + v.y*w.y, in units of 1 / (4*Unit^2)
Dot(v, w) == v.x * w.x + 3 * v.y * w.y

\* addressToPoint: one pass of the loop, tri = [a, b, c]
subTriangle(tri, ch) ==
    LET ab == midpoint(tri.a, tri.b)
        bc == midpoint(tri.b, tri.c)
        ca == midpoint(tri.c, tri.a)
    IN IF ch = "0" THEN [a |-> tri.a, b |-> ab, c |-> ca]
       ELSE IF ch = "1" THEN [a |-> ab, b |-> tri.b, c |-> bc]
       ELSE [a |-> ca, b |-> bc, c |-> tri.c]

RECURSIVE narrow(_, _, _)
narrow(tri, base3, k) ==
    IF k > Len(base3) THEN tri ELSE narrow(subTriangle(tri, base3[k]), base3, k + 1)

addressToPoint(base3) ==
    LET t == narrow([a |-> A, b |-> B, c |-> C], base3, 1) IN centroid(t.a, t.b, t.c)

\* (mutant) the test u + v <= 1 is left out
pointInCone(p, a, b, c) ==
    LET v0 == [x |-> c.x - a.x, y |-> c.y - a.y]
        v1 == [x |-> b.x - a.x, y |-> b.y - a.y]
        v2 == [x |-> p.x - a.x, y |-> p.y - a.y]
        u == Dot(v1, v1) * Dot(v0, v2) - Dot(v0, v1) * Dot(v1, v2)
        v == Dot(v0, v0) * Dot(v1, v2) - Dot(v0, v1) * Dot(v0, v2)
    IN (u >= 0) /\ (v >= 0)

\* pointInTri: u and v are kept as numerators over the common denominator
\* denom = dot00*dot11 - dot01*dot01, which is positive for a proper
\* triangle, so u >= 0, v >= 0, u + v <= 1 are tests on the numerators
pointInTri(p, a, b, c) ==
    LET v0 == [x |-> c.x - a.x, y |-> c.y - a.y]
        v1 == [x |-> b.x - a.x, y |-> b.y - a.y]
        v2 == [x |-> p.x - a.x, y |-> p.y - a.y]
        dot00 == Dot(v0, v0)
        dot01 == Dot(v0, v1)
        dot02 == Dot(v0, v2)
        dot11 == Dot(v1, v1)
        dot12 == Dot(v1, v2)
        denom == dot00 * dot11 - dot01 * dot01
        u == dot11 * dot02 - dot01 * dot12
        v == dot00 * dot12 - dot01 * dot02
    IN (u >= 0) /\ (v >= 0) /\ (u + v <= denom)

\* sierpinski pointToAddress: the loop, i passes done
RECURSIVE pointToAddressLoop(_, _, _, _, _)
pointToAddressLoop(p, D, i, tri, acc) ==
    IF i >= D THEN acc
    ELSE LET ab == midpoint(tri.a, tri.b)
             bc == midpoint(tri.b, tri.c)
             ca == midpoint(tri.c, tri.a)
         IN IF pointInTri(p, tri.a, ab, ca)
            THEN pointToAddressLoop(p, D, i + 1, [a |-> tri.a, b |-> ab, c |-> ca], acc \o <<"0">>)
            ELSE IF pointInTri(p, ab, tri.b, bc)
            THEN pointToAddressLoop(p, D, i + 1, [a |-> ab, b |-> tri.b, c |-> bc], acc \o <<"1">>)
            ELSE pointToAddressLoop(p, D, i + 1, [a |-> ca, b |-> bc, c |-> tri.c], acc \o <<"2">>)

pointToAddress(p, D) == pointToAddressLoop(p, D, 0, [a |-> A, b |-> B, c |-> C], <<>>)

\* tape-core addressToPoint (same subdivision rule over TRIANGLE_VERTICES)
coreAddressToPoint(base3) ==
    LET t == narrow([a |-> A, b |-> B, c |-> C], base3, 1) IN centroid(t.a, t.b, t.c)

\* tape-core pointToAddress: Math.sqrt(dx**2 + dy**2) compared through
\* its square, in units of 1 / (4*Unit^2)
distSq(p, q) == Dot([x |-> p.x - q.x, y |-> p.y - q.y], [x |-> p.x - q.x, y |-> p.y - q.y])

RECURSIVE corePointToAddressLoop(_, _, _, _, _)
corePointToAddressLoop(p, D, i, tri, base3) ==
    IF i >= D THEN base3
    ELSE LET ab == midpoint(tri.a, tri.b)
             bc == midpoint(tri.b, tri.c)
             ca == midpoint(tri.c, tri.a)
             centroid0 == centroid(ab, tri.c, ca)
             centroid1 == centroid(ab, bc, tri.c)
             centroid2 == centroid(ca, ab, bc)
             dist0 == distSq(p, centroid0)
             dist1 == distSq(p, centroid1)
             dist2 == distSq(p, centroid2)
         IN IF dist0 <= dist1 /\ dist0 <= dist2
            THEN corePointToAddressLoop(p, D, i + 1, [a |-> tri.a, b |-> ab, c |-> ca], base3 \o <<"0">>)
            ELSE IF dist1 <= dist2
            THEN corePointToAddressLoop(p, D, i + 1, [a |-> ab, b |-> tri.b, c |-> bc], base3 \o <<"1">>)
            ELSE corePointToAddressLoop(p, D, i + 1, [a |-> ca, b |-> bc, c |-> tri.c], base3 \o <<"2">>)

corePointToAddress(p, D) == corePointToAddressLoop(p, D, 0, [a |-> A, b |-> B, c |-> C], <<>>)

(***************************************************************************)
(* Layered glyph training: packages/tape-web/src/glyphDict.ts              *)
(* (build and encode there are the browser-core copies of trie.ts)         *)
(***************************************************************************)
Lowers == <<"a", "b", "c", "d", "e", "f", "g", "h", "i", "j", "k", "l", "m",
            "n", "o", "p", "q", "r", "s", "t", "u", "v", "w", "x", "y", "z">>
Uppers == <<"A", "B", "C", "D", "E", "F", "G", "H", "I", "J", "K", "L", "M",
            "N", "O", "P", "Q", "R", "S", "T", "U", "V", "W", "X", "Y", "Z">>
DigitChars == <<"0", "1", "2", "3", "4", "5", "6", "7", "8", "9">>
\* the characters \s matches: the ASCII ones and the no-break space
Whitespace == {" ", "\t", "\n", "\r", "U+00A0"}

IndexOf(seq, x) == IF \E i \in DOMAIN seq : seq[i] = x
                   THEN CHOOSE i \in DOMAIN seq : seq[i] = x
                   ELSE 0

\* the Kelvin sign lowercases to k
LowerCaseOf ==
    [u \in {Uppers[i] : i \in DOMAIN Uppers} |-> Lowers[IndexOf(Uppers, u)]] @@ ("U+212A" :> "k")
toLowerCase(ch) == IF ch \in DOMAIN LowerCaseOf THEN LowerCaseOf[ch] ELSE ch

\* String.prototype.toLowerCase: one character for each character, but for
\* the dotted capital I, which becomes i and a combining dot
lowerCaseString(s) ==
    LET lowered[i \in 0..Len(s)] ==
            IF i = 0 THEN <<>>
            ELSE lowered[i - 1] \o (IF s[i] = "U+0130" THEN <<"i", "U+0307">> ELSE <<toLowerCase(s[i])>>)
    IN lowered[Len(s)]

\* the characters a-z, 0-9 and ' that the words are made of
WordChars ==
    {Lowers[i] : i \in DOMAIN Lowers} \cup {DigitChars[i] : i \in DOMAIN DigitChars} \cup {"'"}

\* (mutant) no character is replaced
keepAll(ch) == toLowerCase(ch)

\* s.toLowerCase().replace(/[^a-z0-9\s']/g, " "), one character
keepOrBlank(ch) ==
    LET l == toLowerCase(ch)
    IN IF l \in WordChars \/ l \in Whitespace THEN l ELSE " "

\* .split(/\s+/).filter(Boolean): cur is the piece being read
RECURSIVE splitOnSpace(_, _, _, _)
splitOnSpace(s, i, cur, acc) ==
    IF i > Len(s) THEN (IF Truthy(cur) THEN Append(acc, cur) ELSE acc)
    ELSE IF s[i] \in Whitespace
         THEN splitOnSpace(s, i + 1, <<>>, IF Truthy(cur) THEN Append(acc, cur) ELSE acc)
         ELSE splitOnSpace(s, i + 1, Append(cur, s[i]), acc)

normalizeWords(s) ==
    LET lowered == lowerCaseString(s)
    IN splitOnSpace([i \in 1..Len(lowered) |-> keepOrBlank(lowered[i])], 1, <<>>, <<>>)

\* Array.prototype.join
RECURSIVE join(_, _)
join(parts, sep) ==
    IF Len(parts) = 0 THEN <<>>
    ELSE IF Len(parts) = 1 THEN parts[1]
    ELSE parts[1] \o sep \o join(Tail(parts), sep)

\* the separator character U+0001 of the n-gram keys
SEP == "U+0001"

\* k.split("\u0001")
RECURSIVE splitKey(_, _, _, _)
splitKey(k, i, cur, acc) ==
    IF i > Len(k) THEN Append(acc, cur)
    ELSE IF k[i] = SEP THEN splitKey(k, i + 1, <<>>, Append(acc, cur))
    ELSE splitKey(k, i + 1, Append(cur, k[i]), acc)

\* freq.set(k, (freq.get(k) || 0) + 1) on a Map kept in insertion order
freqSet(freq, k) ==
    IF \E j \in DOMAIN freq : freq[j].key = k
    THEN [j \in DOMAIN freq |-> IF freq[j].key = k
                                THEN [key |-> k, count |-> freq[j].count + 1]
                                ELSE freq[j]]
    ELSE Append(freq, [key |-> k, count |-> 1])

RECURSIVE countGrams(_, _, _)
countGrams(ws, i, freq) ==
    IF i > Len(ws) THEN freq
    ELSE LET f2 == IF i + 1 <= Len(ws)
                   THEN freqSet(freq, ws[i] \o <<SEP>> \o ws[i + 1])
                   ELSE freq
             f3 == IF i + 2 <= Len(ws)
                   THEN freqSet(f2, ws[i] \o <<SEP>> \o ws[i + 1] \o <<SEP>> \o ws[i + 2])
                   ELSE f2
         IN countGrams(ws, i + 1, f3)

\* String.prototype.localeCompare under the root collation: U+0001 is
\* ignorable, blank < punctuation < "~" < digits < letters decide first,
\* and between strings equal so far lower case goes before upper case
CollationOrder == <<" ", "!", "'", "~">> \o DigitChars \o Lowers
Collated(s) == SelectSeq(s, LAMBDA ch : ch # SEP)
CollationWeight ==
    [ch \in {CollationOrder[i] : i \in DOMAIN CollationOrder} |-> IndexOf(CollationOrder, ch)]
primaryWeight(ch) ==
    IF toLowerCase(ch) \in DOMAIN CollationWeight THEN CollationWeight[toLowerCase(ch)] ELSE 0
caseWeight(ch) == IF ch \in DOMAIN LowerCaseOf THEN 1 ELSE 0

\* a comparison of two weight sequences, as a negative, zero or positive number
RECURSIVE compareWeights(_, _, _)
compareWeights(s, t, i) ==
    IF i > Len(s) /\ i > Len(t) THEN 0
    ELSE IF i > Len(s) THEN -1
    ELSE IF i > Len(t) THEN 1
    ELSE IF s[i] # t[i] THEN s[i] - t[i]
    ELSE compareWeights(s, t, i + 1)

localeCompare(s, t) ==
    LET cs == Collated(s)
        ct == Collated(t)
        p == compareWeights([i \in DOMAIN cs |-> primaryWeight(cs[i])],
                            [i \in DOMAIN ct |-> primaryWeight(ct[i])], 1)
    IN IF p # 0 THEN p
       ELSE compareWeights([i \in DOMAIN cs |-> caseWeight(cs[i])],
                           [i \in DOMAIN ct |-> caseWeight(ct[i])], 1)

\* the comparator of the sort in minePhrases
byFrequency(a, b) ==
    LET la == Len(splitKey(a.key, 1, <<>>, <<>>))
        lb == Len(splitKey(b.key, 1, <<>>, <<>>))
    IN IF b.count # a.count THEN b.count - a.count
       ELSE IF lb # la THEN lb - la
       ELSE localeCompare(a.key, b.key)

\* Array.prototype.sort is stable: an item goes behind the items that the
\* comparator does not put after it
RECURSIVE sortItems(_, _, _)
sortItems(items, k, sorted) ==
    IF k > Len(items) THEN sorted
    ELSE LET x == items[k]
             n == Cardinality({j \in DOMAIN sorted : byFrequency(sorted[j], x) <= 0})
         IN sortItems(items, k + 1,
                      SubSeq(sorted, 1, n) \o <<x>> \o SubSeq(sorted, n + 1, Len(sorted)))

minePhrases(ws, topN) ==
    LET items == sortItems(countGrams(ws, 1, <<>>), 1, <<>>)
        kept == SubSeq(items, 1, Min(topN, Len(items)))
    IN [i \in DOMAIN kept |-> splitKey(kept[i].key, 1, <<>>, <<>>)]

\* asciiGlyphPool: the strings recur pushes for one level, in its order
RECURSIVE poolLevel(_, _)
poolLevel(alphabet, d) ==
    IF d = 0 THEN << <<>> >>
    ELSE LET rest == poolLevel(alphabet, d - 1)
         IN [k \in 1..(Len(alphabet) * Len(rest)) |->
                <<alphabet[((k - 1) \div Len(rest)) + 1]>> \o rest[((k - 1) % Len(rest)) + 1]]

RECURSIVE asciiGlyphPoolFrom(_, _, _, _)
asciiGlyphPoolFrom(prefix, levels, alphabet, L) ==
    IF L > levels THEN <<>>
    ELSE LET level == poolLevel(alphabet, L)
         IN [i \in DOMAIN level |-> prefix \o level[i]]
            \o asciiGlyphPoolFrom(prefix, levels, alphabet, L + 1)

asciiGlyphPool(prefix, levels, alphabet) == asciiGlyphPoolFrom(prefix, levels, alphabet, 1)

\* A 32-bit unsigned integer is the pair <<high, low>> of its 16-bit halves.
W16 == 65536

\* str.charCodeAt(i), for the characters that texts and seeds are written in
CharCode ==
    [ch \in {" ", "!", "'", "-", ":", "~"} |->
        CASE ch = " " -> 32 [] ch = "!" -> 33 [] ch = "'" -> 39
          [] ch = "-" -> 45 [] ch = ":" -> 58 [] ch = "~" -> 126]
    @@ [ch \in {DigitChars[i] : i \in DOMAIN DigitChars} |-> 47 + IndexOf(DigitChars, ch)]
    @@ [ch \in {Uppers[i] : i \in DOMAIN Uppers} |-> 64 + IndexOf(Uppers, ch)]
    @@ [ch \in {Lowers[i] : i \in DOMAIN Lowers} |-> 96 + IndexOf(Lowers, ch)]

\* bit k of a
bitOf(a, k) == (a \div (2 ^ k)) % 2

\* the n low bits of a ^ b and of a | b
xorBits(a, b, n) ==
    LET from[k \in 0..n] ==
            IF k = n THEN 0 ELSE ((bitOf(a, k) + bitOf(b, k)) % 2) + 2 * from[k + 1]
    IN from[0]

orBits(a, b, n) ==
    LET from[k \in 0..n] ==
            IF k = n THEN 0 ELSE Max(bitOf(a, k), bitOf(b, k)) + 2 * from[k + 1]
    IN from[0]

\* x ^ y
xor32(x, y) == <<xorBits(x[1], y[1], 16), xorBits(x[2], y[2], 16)>>

\* x | y
or32(x, y) == <<orBits(x[1], y[1], 16), orBits(x[2], y[2], 16)>>

\* x + y brought back to 32 bits by the next bitwise operator
add32(x, y) ==
    LET low == x[2] + y[2]
    IN <<(x[1] + y[1] + (low \div W16)) % W16, low % W16>>

\* x >>> n, for 0 < n < 16
shiftRight(x, n) == <<x[1] \div (2 ^ n), (x[2] \div (2 ^ n)) + (x[1] % (2 ^ n)) * (2 ^ (16 - n))>>

\* the product of two 16-bit numbers
mul16(a, b) ==
    LET p0 == a * (b % 256)
        p1 == a * (b \div 256)
        low == p0 + (p1 % 256) * 256
    IN <<(low \div W16) + (p1 \div 256), low % W16>>

\* Math.imul(x, y): the low 32 bits of the product
imul(x, y) ==
    LET ll == mul16(x[2], y[2])
    IN <<(ll[1] + mul16(x[1], y[2])[2] + mul16(x[2], y[1])[2]) % W16, ll[2]>>

\* 0x811c9dc5, 0x01000193 and 0x6D2B79F5
FnvOffset == <<33052, 40389>>
FnvPrime == <<256, 403>>
MulberryStep == <<27947, 31221>>

\* the loop of fnv1a32 from character i on, h being <<high, low>>
fnv1a32(str) ==
    LET from[i \in 1..(Len(str) + 1), high \in 0..(W16 - 1), low \in 0..(W16 - 1)] ==
            IF i > Len(str) THEN <<high, low>>
            ELSE LET h == imul(xor32(<<high, low>>, <<0, CharCode[str[i]]>>), FnvPrime)
                 IN from[i + 1, h[1], h[2]]
    IN from[1, FnvOffset[1], FnvOffset[2]]

\* what the function returned by mulberry32 computes from its state, once
\* seed += 0x6D2B79F5 is done, before the division by 4294967296
mulberry32(state) ==
    LET t1 == imul(xor32(state, shiftRight(state, 15)), or32(<<0, 1>>, state))
        t2 == xor32(t1, add32(t1, imul(xor32(t1, shiftRight(t1, 7)), or32(<<0, 61>>, t1))))
    IN xor32(t2, shiftRight(t2, 14))

\* Math.floor(rand() * n) for rand() = u / 4294967296 and n < 2^15
floorTimes(u, n) == (u[1] * n + ((u[2] * n) \div W16)) \div W16

\* String(n) for a 32-bit unsigned n
RECURSIVE decimalDigits(_)
decimalDigits(x) ==
    IF x = <<0, 0>> THEN <<>>
    ELSE LET rest == (x[1] % 10) * W16 + x[2]
         IN decimalDigits(<<x[1] \div 10, rest \div 10>>) \o <<DigitChars[(rest % 10) + 1]>>

toDecimal(x) == IF x = <<0, 0>> THEN <<"0">> ELSE decimalDigits(x)

\* [a[i], a[j]] = [a[j], a[i]], on 1-based places
swap(a, i, j) == [k \in DOMAIN a |-> IF k = i THEN a[j] ELSE IF k = j THEN a[i] ELSE a[k]]

\* the loop of shuffle, for (let i = a.length - 1; i > 0; i--)
RECURSIVE shuffleFrom(_, _, _)
shuffleFrom(a, state, i) ==
    IF i <= 0 THEN a
    ELSE LET next == add32(state, MulberryStep)
             j == floorTimes(mulberry32(next), i + 1)
         IN shuffleFrom(Listed(swap(a, i + 1, j + 1)), next, i - 1)

\* shuffle(arr, seedStr): the Fisher-Yates permutation of arr drawn from
\* mulberry32(fnv1a32(seedStr))
shuffle(arr, seedStr) == shuffleFrom(arr, fnv1a32(seedStr), Len(arr) - 1)

newGlyphs(phrases, pool, ofLayer) ==
    [i \in DOMAIN phrases |-> [layer |-> ofLayer, phrase |-> phrases[i], glyph |-> pool[i]]]

getGlyphsUpToLayer(current, maxLayer) == SelectSeq(current, LAMBDA g : g.layer <= maxLayer)

\* the safe ASCII alphabet, cut down to one punctuation mark and one letter
ALPHA == <<"!", "A">>

\* mineFromEncodedStream, where Date.now() returns the number written dateNow
mineFromEncodedStream(encodedTokens, ofLayer, topN, dateNow) ==
    LET phrases == minePhrases(encodedTokens, topN)
        pool == shuffle(asciiGlyphPool(<<"~">>, 2, ALPHA),
                        <<"l", "a", "y", "e", "r", "-">> \o toDecimal(<<0, ofLayer>>)
                            \o <<"-">> \o dateNow)
    IN newGlyphs(phrases, pool, ofLayer)

(***************************************************************************)
(* Cost model: packages/tape-core/src/mdl.ts                               *)
(***************************************************************************)
\* ruleCost(rule, lambda): DEF + symbol + children + expansion
mdlRuleCost(rule, lambda) ==
    LET defCost == 3
        symbolCost == Len(rule.symbol)
        childrenCost == Len(rule.children) * 2
        expansionCost == Len(join(rule.expansion, <<" ">>))
    IN (defCost + symbolCost + childrenCost + expansionCost) * lambda

ruleSavings(rule, frequency) ==
    LET originalBytes == Len(join(rule.expansion, <<" ">>))
        compressedBytes == Len(rule.symbol)
    IN (originalBytes - compressedBytes) * frequency

mdlGain(rule, frequency, lambda) == ruleSavings(rule, frequency) - mdlRuleCost(rule, lambda)

(***************************************************************************)
(* Phrase miner: packages/tape-core/src/minePhrases.ts                     *)
(***************************************************************************)
\* (mutant) the last window of each length is left out
allButLastWindow(length, n) == length - n - 1

\* the last 0-based start of a window of n words: i <= words.length - n
lastWindow(length, n) == length - n

\* the inner loop for one n: the keys of the windows words.slice(i, i + n)
\* for i = 0 .. words.length - n, in the order they are counted
windowKeys(ws, n) ==
    [k \in 1..(lastWindow(Len(ws), n) + 1) |-> join(SubSeq(ws, k, k + n - 1), <<SEP>>)]

\* the outer loop: the keys of all windows for n = nMin .. nMax
RECURSIVE allWindowKeys(_, _, _)
allWindowKeys(ws, n, hi) ==
    IF n > hi THEN <<>> ELSE windowKeys(ws, n) \o allWindowKeys(ws, n + 1, hi)

\* freq after freq.set(key, (freq.get(key) || 0) + 1) for each of the keys:
\* a Map lists its keys in the order they were first set
countKeys(keys) ==
    LET first == {k \in DOMAIN keys : \A j \in 1..(k - 1) : keys[j] # keys[k]}
    IN Listed([r \in 1..Cardinality(first) |->
            LET k == CHOOSE k \in first : Cardinality({j \in first : j <= k}) = r
            IN [key |-> keys[k],
                count |-> Cardinality({j \in DOMAIN keys : keys[j] = keys[k]})]])

\* the estimated glyph length, by the number of candidates kept so far
glyphLengthAt(accepted) ==
    IF accepted < 82 THEN 2
    ELSE IF accepted < 82 + 82 * 82 THEN 3
    ELSE 4

\* (mutant) zero gain is kept as well
notNegative(gain) == gain >= 0

\* only phrases with positive gain are kept
positive(gain) == gain > 0

\* the candidate made of one entry of freq when length candidates are kept
scored(entry, length) ==
    LET phrase == splitKey(entry.key, 1, <<>>, <<>>)
        chars == Len(join(phrase, <<" ">>))
        glyphLength == glyphLengthAt(length)
    IN [phrase |-> phrase, count |-> entry.count, chars |-> chars,
        gain |-> (chars - glyphLength) * entry.count]

\* the loop over freq: lengthAfter[lo, hi, length] is candidates.length
\* after the entries lo..hi when it was length before them (the entries are
\* taken in two halves, one after the other), and an entry is pushed when
\* its gain at the length reached before it is positive
toCandidates(freq) ==
    LET lengthAfter[lo \in 1..(Len(freq) + 1), hi \in 0..Len(freq), length \in 0..Len(freq)] ==
            IF lo > hi THEN length
            ELSE IF lo = hi
            THEN (IF positive(scored(freq[lo], length).gain) THEN length + 1 ELSE length)
            ELSE lengthAfter[(lo + hi) \div 2 + 1, hi, lengthAfter[lo, (lo + hi) \div 2, length]]
        before == Listed([k \in DOMAIN freq |-> lengthAfter[1, k - 1, 0]])
        pushed == {k \in DOMAIN freq : positive(scored(freq[k], before[k]).gain)}
    IN Listed([r \in 1..Cardinality(pushed) |->
            LET k == CHOOSE k \in pushed : Cardinality({j \in pushed : j <= k}) = r
            IN scored(freq[k], before[k])])

\* the comparator of the sort in mine
byGain(a, b) ==
    IF b.gain # a.gain THEN b.gain - a.gain
    ELSE IF Len(b.phrase) # Len(a.phrase) THEN Len(b.phrase) - Len(a.phrase)
    ELSE localeCompare(join(a.phrase, <<" ">>), join(b.phrase, <<" ">>))

\* Array.prototype.sort is stable: the place of a candidate is behind the
\* candidates that go before it and behind its equals that came earlier
sortCandidates(cands) ==
    LET place == Listed([k \in DOMAIN cands |->
                    Cardinality({j \in DOMAIN cands :
                        LET order == byGain(cands[j], cands[k])
                        IN order < 0 \/ (order = 0 /\ j <= k)})])
    IN [r \in DOMAIN cands |-> cands[CHOOSE k \in DOMAIN cands : place[k] = r]]

mine(ws, lo, hi) == sortCandidates(toCandidates(countKeys(allWindowKeys(ws, lo, hi))))

(***************************************************************************)
(* Tape store and ingestion: unnamed/part_002 (store.ts) and               *)
(* packages/tape-core/src/encode.ts (ingestDocsToStore)                    *)
(*                                                                         *)
(* A table with a primary key is a function from the key to the row, so    *)
(* that INSERT OR REPLACE is @@ with the new row first; the table postings *)
(* has no key and is the sequence of its rows.                             *)
(***************************************************************************)
BATCH_SIZE == 1000

EmptyTable == [k \in {} |-> <<>>]

\* INSERT OR REPLACE INTO t(key, ...) VALUES(key, row)
insertOrReplace(table, key, row) == (key :> row) @@ table

\* store.batchTokens(pairs): one transaction of INSERT OR REPLACE
RECURSIVE batchTokens(_, _, _)
batchTokens(table, pairs, k) ==
    IF k > Len(pairs) THEN table
    ELSE batchTokens(insertOrReplace(table, pairs[k][1], pairs[k][2]), pairs, k + 1)

\* store.batchPostings(pairs): one transaction of INSERT
batchPostings(table, pairs) == table \o pairs

\* store.batchGlyphs(pairs)
RECURSIVE batchGlyphs(_, _, _)
batchGlyphs(table, pairs, k) ==
    IF k > Len(pairs) THEN table
    ELSE batchGlyphs(insertOrReplace(table, pairs[k][1], pairs[k][2]), pairs, k + 1)

\* store.addDocBounds(doc, start, end)
addDocBounds(table, d, s, e) == insertOrReplace(table, d, [start |-> s, end |-> e])

\* (mutant) the address is not advanced
sameAddress(a) == a

\* addr++
nextAddress(a) == a + 1

\* for (const t of toks) { tokenEntries.push([addr, t]); addr++ }: the addresses
\* of the tokens of one document, the first of them at start
RECURSIVE addressesFrom(_, _, _)
addressesFrom(start, toks, k) ==
    IF k > Len(toks) THEN <<>>
    ELSE <<start>> \o addressesFrom(nextAddress(start), toks, k + 1)

\* addr after the loop over the tokens of one document
RECURSIVE addressAfter(_, _, _)
addressAfter(start, toks, k) ==
    IF k > Len(toks) THEN start ELSE addressAfter(nextAddress(start), toks, k + 1)

\* the loop that inserts the pairs in slices of BATCH_SIZE, from 0-based i
RECURSIVE insertTokenBatches(_, _, _)
insertTokenBatches(table, tokenEntries, i) ==
    IF i >= Len(tokenEntries) THEN table
    ELSE insertTokenBatches(
            batchTokens(table, SubSeq(tokenEntries, i + 1, Min(i + BATCH_SIZE, Len(tokenEntries))), 1),
            tokenEntries, i + BATCH_SIZE)

RECURSIVE insertPostingBatches(_, _, _)
insertPostingBatches(table, postingEntries, i) ==
    IF i >= Len(postingEntries) THEN table
    ELSE insertPostingBatches(
            batchPostings(table, SubSeq(postingEntries, i + 1, Min(i + BATCH_SIZE, Len(postingEntries)))),
            postingEntries, i + BATCH_SIZE)

encodeTextToTokens(t, gs) == encode(normalizeWords(t), build(gs))

RECURSIVE minDepthLoop(_, _, _)
minDepthLoop(n, D, cap) == IF cap < n THEN minDepthLoop(n, D + 1, cap * 3) ELSE D

minDepthForSlots(n) == minDepthLoop(n, 0, 1)

(***************************************************************************)
(* Container: packages/tape-cli/src/cli.ts (pack, unpack)                  *)
(*                                                                         *)
(* A Buffer is the sequence of its bytes, a decoded string is a sequence   *)
(* of one-character strings.                                               *)
(***************************************************************************)
\* the UTF-8 byte of a character (all of them ASCII)
Utf8 == ("\n" :> 10) @@ CharCode

utf8Bytes(str) == [i \in DOMAIN str |-> Utf8[str[i]]]

\* the character U+FFFD that decoding puts in place of a byte that is not
\* UTF-8, here the byte 255
Replacement == "U+FFFD"

\* buf.toString('utf8') of bytes that are ASCII or 255
utf8String(bytes) ==
    [i \in DOMAIN bytes |->
        IF bytes[i] < 128 /\ \E ch \in DOMAIN Utf8 : Utf8[ch] = bytes[i]
        THEN CHOOSE ch \in DOMAIN Utf8 : Utf8[ch] = bytes[i]
        ELSE IF bytes[i] < 128 THEN "U+00" ELSE Replacement]

\* JSON.stringify of a string: the quotes, and \n for a line feed
jsonString(str) ==
    LET escaped[i \in 0..Len(str)] ==
            IF i = 0 THEN <<>>
            ELSE escaped[i - 1] \o (IF str[i] = "\n" THEN <<92, 110>> ELSE <<Utf8[str[i]]>>)
    IN <<34>> \o escaped[Len(str)] \o <<34>>

\* JSON.stringify of an array whose items are written already
jsonArray(items) ==
    LET listed[i \in 0..Len(items)] ==
            IF i = 0 THEN <<>>
            ELSE listed[i - 1] \o (IF i > 1 THEN <<44>> ELSE <<>>) \o items[i]
    IN <<91>> \o listed[Len(items)] \o <<93>>

\* JSON.stringify of one entry {"phrase":[...],"glyph":"..."}
jsonEntry(e) ==
    <<123>> \o jsonString(<<"p", "h", "r", "a", "s", "e">>) \o <<58>>
        \o jsonArray([k \in DOMAIN e.phrase |-> jsonString(e.phrase[k])])
        \o <<44>> \o jsonString(<<"g", "l", "y", "p", "h">>) \o <<58>>
        \o jsonString(e.glyph) \o <<125>>

\* JSON.stringify(glyphs.glyphs || glyphs)
jsonStringify(es) == jsonArray([k \in DOMAIN es |-> jsonEntry(es[k])])

\* the magic 'FTZ1'
Magic == <<"F", "T", "Z", "1">>

\* header.writeUInt32LE(n, 4)
uint32LE(n) == <<n % 256, (n \div 256) % 256, (n \div 65536) % 256, (n \div 16777216) % 256>>

\* what pack writes to stdout for the glyph list es and the text on stdin
pack(es, piped) ==
    LET wordList == normalizeWords(piped)
        encoded == encode(wordList, build(es))
        glyphCount == Len(es)
        glyphData == jsonStringify(es)
        tokenData == join(encoded, <<" ">>)
        header == utf8Bytes(Magic) \o uint32LE(glyphCount)
    IN header \o glyphData \o <<10>> \o utf8Bytes(tokenData)

\* data.toString('utf8', start, end) and the bytes it decodes, 0-based
bytesBetween(data, start, end) ==
    IF Min(end, Len(data)) <= start THEN <<>> ELSE SubSeq(data, start + 1, Min(end, Len(data)))

\* data.indexOf('\n', from): 0-based, -1 when there is none
indexOfNewline(data, from) ==
    LET at == {i \in from..(Len(data) - 1) : data[i + 1] = 10}
    IN IF at = {} THEN -1 ELSE CHOOSE i \in at : \A j \in at : i <= j

\* (mutant) the dictionary is looked for right behind the magic
behindMagic == Len(Magic)

\* glyphDataStart
glyphDataStart == 8

\* tokenData.split(/\s+/)
RECURSIVE splitSpaces(_, _, _, _)
splitSpaces(s, i, cur, acc) ==
    IF i > Len(s) THEN Append(acc, cur)
    ELSE IF s[i] \in Whitespace
         THEN IF i > 1 /\ s[i - 1] \in Whitespace
              THEN splitSpaces(s, i + 1, cur, acc)
              ELSE splitSpaces(s, i + 1, <<>>, Append(acc, cur))
         ELSE splitSpaces(s, i + 1, Append(cur, s[i]), acc)

\* the end of a run of unpack: the exit code, what was written to stderr
\* and to stdout, and the two parts the container was split into
Exit(exitCode, stderr, stdout, glyphData, tokenData) ==
    [exit |-> exitCode, stderr |-> stderr, stdout |-> stdout,
     glyphData |-> glyphData, tokenData |-> tokenData]

\* no run of unpack has ended
NotRun == Exit(-1, "", <<>>, <<>>, <<>>)

\* unpack of the bytes on stdin; known is the set of glyph lists whose JSON
\* text JSON.parse is asked to read, any other text here being no JSON
unpack(data, known) ==
    IF utf8String(bytesBetween(data, 0, 4)) # Magic
    THEN Exit(1, "Invalid .ftz file", <<>>, <<>>, <<>>)
    ELSE IF Len(data) < 8
    THEN Exit(1, "RangeError", <<>>, <<>>, <<>>)
    ELSE LET glyphDataEnd == indexOfNewline(data, glyphDataStart)
             glyphData == bytesBetween(data, glyphDataStart, glyphDataEnd)
             tokenData == utf8String(bytesBetween(data, glyphDataEnd + 1, Len(data)))
             parsed == {es \in known : jsonStringify(es) = glyphData}
         IN IF parsed = {}
            THEN Exit(1, "SyntaxError", <<>>, glyphData, tokenData)
            ELSE LET es == CHOOSE es \in parsed : TRUE
                     ts == splitSpaces(tokenData, 1, <<>>, <<>>)
                 IN Exit(0, "", join(decode(ts, es), <<" ">>), glyphData, tokenData)

------------------------------------------------------------------------------
(***************************************************************************)
(* Trie codec inputs                                                       *)
(***************************************************************************)
MaxEntries == 2
MaxWords == 3

ta == <<"a">>
tb == <<"b">>
tc == <<"c">>
gX == <<"~", "X">>
gY == <<"~", "Y">>

Literals == {ta, tb, tc}
\* glyph strings; tc is a glyph string that is also a literal word
Glyphs == {gX, gY, tc}
Phrases == {<<ta>>, <<ta, tb>>, <<ta, tb, tc>>, <<tb, tc>>}
GlyphEntry == [phrase : Phrases, glyph : Glyphs]

TrieInit ==
    /\ entries \in SeqsOf(GlyphEntry, 0, MaxEntries)
    /\ words \in SeqsOf(Literals, 0, MaxWords)
    /\ tokens = <<>>
    /\ decoded = <<>>
    /\ tpc = "start"

\* the trie codec is not in use
TrieIdle ==
    /\ entries = <<>>
    /\ words = <<>>
    /\ tokens = <<>>
    /\ decoded = <<>>
    /\ tpc = "idle"

Encode ==
    /\ tpc = "start"
    /\ tokens' = encode(words, build(entries))
    /\ tpc' = "encoded"
    /\ UNCHANGED <<entries, words, decoded>>
    /\ UNCHANGED exceptTrie

Decode ==
    /\ tpc = "encoded"
    /\ decoded' = decode(tokens, entries)
    /\ tpc' = "decoded"
    /\ UNCHANGED <<entries, words, tokens>>
    /\ UNCHANGED exceptTrie

(***************************************************************************)
(* Grammar inputs and operations                                           *)
(***************************************************************************)
MaxStream == 6

\* raw tokens as the tokenizer produces them ([a-z0-9']+): the word "0"
\* and three eight-letter words
t0 == <<"0">>
wFractals == <<"f", "r", "a", "c", "t", "a", "l", "s">>
wGrammars == <<"g", "r", "a", "m", "m", "a", "r", "s">>
wSequence == <<"s", "e", "q", "u", "e", "n", "c", "e">>
RawTokens == {t0, wFractals, wGrammars, wSequence}
IterationBudgets == {2, DefaultMaxIterations}

\* children of a direct defineSymbol call: a previously defined symbol or a
\* raw token, alone or followed by a raw word
DirectChildren(g) ==
    LET U == SetOf(g.symbols) \cup {t0, wFractals}
    IN {<<x>> : x \in U} \cup {<<x, wFractals>> : x \in U}

\* the maxIterations that runHybridInduction is called with
HybridBudgets == {1, 2, 3, DefaultMaxIterations}

\* caller is the induction that was called, budget the maxIterations it was
\* called with, and created counts the rules made by the RePair loop and by
\* the Sequitur loop
GrammarInit ==
    /\ grammar = createGrammar
    /\ currentStream = <<>>
    /\ iterations = 0
    /\ maxIterations = 0
    /\ newSymbol = Null
    /\ caller = "none"
    /\ budget = 0
    /\ created = <<0, 0>>
    /\ errors = <<>>
    /\ original = <<>>
    /\ expanded = Returned(<<>>)
    /\ gpc = "idle"

GrammarIdle == GrammarInit

\* a client calls defineSymbol(grammar, children, children, 1)
DefineSymbol ==
    /\ gpc = "idle"
    /\ \E children \in DirectChildren(grammar) :
         LET r == defineSymbol(grammar, children, children, 1) IN
         /\ grammar' = r.grammar
         /\ newSymbol' = r.symbol
         /\ gpc' = IF r.threw THEN "threw" ELSE "idle"
    /\ UNCHANGED <<currentStream, iterations, maxIterations, caller, budget, created, errors, original, expanded>>
    /\ UNCHANGED exceptGrammar

\* the symbols of rules that a client adds with addRule itself
AddedSymbols == {<<"0">>, <<"2", "2">>}

\* the child of a rule that a client adds with addRule itself: a word, or
\* a token that reads like a path
AddedChildren == {wFractals, t0}

\* a client calls addRule(grammar, createRule(symbol, [child], [child]))
AddRule ==
    /\ gpc = "idle"
    /\ \E symbol \in AddedSymbols, child \in AddedChildren :
         LET r == addRule(grammar, createRule(symbol, <<child>>, <<child>>, 1)) IN
         /\ grammar' = r.grammar
         /\ newSymbol' = IF r.ok THEN symbol ELSE Null
    /\ UNCHANGED <<currentStream, iterations, maxIterations, caller, budget, created, gpc, errors, original, expanded>>
    /\ UNCHANGED exceptGrammar

\* a client calls validateGrammar(grammar) on the grammar it has built or
\* that an induction has returned
Validate ==
    /\ gpc \in {"idle", "done"}
    /\ errors' = validateGrammar(grammar)
    /\ gpc' = "validated"
    /\ UNCHANGED <<grammar, currentStream, iterations, maxIterations, newSymbol, caller, budget, created, original, expanded>>
    /\ UNCHANGED exceptGrammar

\* a client calls expandStream(grammar, currentStream) on the stream of a
\* round or on the returned stream
Expand ==
    /\ gpc \in {"repair", "sequitur", "returned", "done"}
    /\ expanded' = expandStream(grammar, currentStream)
    /\ gpc' = "expanded"
    /\ UNCHANGED <<grammar, currentStream, iterations, maxIterations, newSymbol, caller, budget, created, errors, original>>
    /\ UNCHANGED exceptGrammar

\* runRepair(grammar, stream, maxIterations) is entered on an empty grammar
StartRepair ==
    /\ gpc = "idle"
    /\ grammar = createGrammar
    /\ \E stream \in SeqsOf(RawTokens, 0, MaxStream), limit \in IterationBudgets :
         /\ currentStream' = stream
         /\ original' = stream
         /\ maxIterations' = limit
         /\ budget' = limit
    /\ iterations' = 0
    /\ caller' = "runRepair"
    /\ gpc' = "repair"
    /\ UNCHANGED <<grammar, newSymbol, created, errors, expanded>>
    /\ UNCHANGED exceptGrammar

\* runSequitur(grammar, stream, maxIterations) is entered on an empty grammar
StartSequitur ==
    /\ gpc = "idle"
    /\ grammar = createGrammar
    /\ \E stream \in SeqsOf(RawTokens, 0, MaxStream), limit \in IterationBudgets :
         /\ currentStream' = stream
         /\ original' = stream
         /\ maxIterations' = limit
         /\ budget' = limit
    /\ iterations' = 0
    /\ caller' = "runSequitur"
    /\ gpc' = "sequitur"
    /\ UNCHANGED <<grammar, newSymbol, created, errors, expanded>>
    /\ UNCHANGED exceptGrammar

\* runHybridInduction(grammar, stream, maxIterations) is entered on an empty
\* grammar and calls runRepair with its share of the iterations
StartHybrid ==
    /\ gpc = "idle"
    /\ grammar = createGrammar
    /\ \E stream \in SeqsOf(RawTokens, 0, MaxStream), limit \in HybridBudgets :
         /\ currentStream' = stream
         /\ original' = stream
         /\ budget' = limit
         /\ maxIterations' = repairShare(limit)
    /\ iterations' = 0
    /\ caller' = "runHybridInduction"
    /\ gpc' = "repair"
    /\ UNCHANGED <<grammar, newSymbol, created, errors, expanded>>
    /\ UNCHANGED exceptGrammar

\* runRepair has returned to runHybridInduction, which calls runSequitur
\* with the rest of the iterations
HybridSequitur ==
    /\ gpc = "returned"
    /\ maxIterations' = budget - repairShare(budget)
    /\ iterations' = 0
    /\ gpc' = "sequitur"
    /\ UNCHANGED <<grammar, currentStream, newSymbol, caller, budget, created, errors, original, expanded>>
    /\ UNCHANGED exceptGrammar

\* where runRepair returns to
afterRepair == IF caller = "runHybridInduction" THEN "returned" ELSE "done"

\* one evaluation of runRepair's loop condition and, if it holds, one pass
\* through the loop body
RepairRound ==
    /\ gpc = "repair"
    /\ IF iterations >= maxIterations
       THEN /\ gpc' = afterRepair
            /\ UNCHANGED <<grammar, currentStream, iterations, newSymbol, created>>
       ELSE \E pair \in {findMostFrequentPair(currentStream)} :
            IF pair = NoPair
            THEN /\ gpc' = afterRepair
                 /\ UNCHANGED <<grammar, currentStream, iterations, newSymbol, created>>
            ELSE \E r \in {tryDefinePair(grammar, pair, pair.frequency, DefaultLambda)} :
                 /\ grammar' = r.grammar
                 /\ newSymbol' = r.symbol
                 /\ IF r.threw
                    THEN gpc' = "threw" /\ UNCHANGED <<currentStream, iterations, created>>
                    ELSE IF r.symbol = Null
                    THEN gpc' = afterRepair /\ UNCHANGED <<currentStream, iterations, created>>
                    ELSE /\ currentStream' = replacePair(currentStream, pair, r.symbol)
                         /\ iterations' = iterations + 1
                         /\ created' = [created EXCEPT ![1] = @ + 1]
                         /\ gpc' = "repair"
    /\ UNCHANGED <<maxIterations, caller, budget, errors, original, expanded>>
    /\ UNCHANGED exceptGrammar

\* one evaluation of runSequitur's loop condition and, if it holds, one pass
\* through the loop body
SequiturRound ==
    /\ gpc = "sequitur"
    /\ IF iterations >= maxIterations
       THEN /\ gpc' = "done"
            /\ UNCHANGED <<grammar, currentStream, iterations, newSymbol, created>>
       ELSE \E pair \in {findMostFrequentPair(currentStream)} :
            IF pair = NoPair \/ tooRare(pair.frequency)
            THEN /\ gpc' = "done"
                 /\ UNCHANGED <<grammar, currentStream, iterations, newSymbol, created>>
            ELSE \E r \in {tryDefinePair(grammar, pair, pair.frequency, DefaultLambda)} :
                 /\ grammar' = r.grammar
                 /\ newSymbol' = r.symbol
                 /\ IF r.threw
                    THEN gpc' = "threw" /\ UNCHANGED <<currentStream, iterations, created>>
                    ELSE IF r.symbol = Null
                    THEN gpc' = "done" /\ UNCHANGED <<currentStream, iterations, created>>
                    ELSE /\ currentStream' = replacePair(currentStream, pair, r.symbol)
                         /\ iterations' = iterations + 1
                         /\ created' = [created EXCEPT ![2] = @ + 1]
                         /\ gpc' = "sequitur"
    /\ UNCHANGED <<maxIterations, caller, budget, errors, original, expanded>>
    /\ UNCHANGED exceptGrammar

(***************************************************************************)
(* Address space inputs and operations                                     *)
(***************************************************************************)
NoPoint == [x |-> -1, y |-> -1]

AddressInit ==
    /\ \E D \in 1..MaxDepth : \E a \in 0..(Pow3(D) - 1) : code = toBase3(a, D)
    /\ point = NoPoint
    /\ inverse = Null
    /\ coreInverse = Null
    /\ apc = "address"

AddressIdle ==
    /\ code = <<>>
    /\ point = NoPoint
    /\ inverse = Null
    /\ coreInverse = Null
    /\ apc = "idle"

AddressToPoint ==
    /\ apc = "address"
    /\ point' = addressToPoint(code)
    /\ apc' = "point"
    /\ UNCHANGED <<code, inverse, coreInverse>>
    /\ UNCHANGED exceptAddress

\* sierpinski.ts pointToAddress(point, D) with D the width of the address
PointToAddress ==
    /\ apc = "point"
    /\ inverse = Null
    /\ inverse' = pointToAddress(point, Len(code))
    /\ UNCHANGED <<code, point, coreInverse, apc>>
    /\ UNCHANGED exceptAddress

\* tape-core utils.ts pointToAddress(addressToPoint(code), D)
CorePointToAddress ==
    /\ coreInverse = Null
    /\ coreInverse' = corePointToAddress(coreAddressToPoint(code), Len(code))
    /\ UNCHANGED <<code, point, inverse, apc>>
    /\ UNCHANGED exceptAddress

(***************************************************************************)
(* Layered training inputs and operations                                  *)
(***************************************************************************)
MaxTextWords == 4
MaxLayerDepth == 3
MaxTop == 2
DefaultPrefix == <<"~">>
DefaultLevels == 2

\* the words a text is written with, one of them in upper case with a mark
TextWords == {<<"c">>, <<"d">>, <<"C", "!">>}
Texts == {join(ws, <<" ">>) : ws \in SeqsOf(TextWords, 0, MaxTextWords)}

\* opts.seed: left out, or a string of the caller
Seeds == {Null, <<"s">>, <<"t">>}

\* the values Date.now() returns, in the order of time
Instants == << <<"1", "7", "0", "0", "0", "0", "0", "0", "0", "0", "0", "0", "0">>,
              <<"1", "7", "0", "0", "0", "0", "0", "0", "0", "0", "0", "0", "1">> >>

\* trainLayeredGlyphs(text, layerDepth, {top, seed}) has cleared the glyphs;
\* run counts the calls made with these arguments and firstRun keeps the
\* glyphs the first call left
LayerInit ==
    /\ text \in Texts
    /\ layerDepth \in 1..MaxLayerDepth
    /\ top \in 1..MaxTop
    /\ seed \in Seeds
    /\ now = 1
    /\ CURRENT = <<>>
    /\ currentText = text
    /\ layer = 1
    /\ run = 1
    /\ firstRun = Null
    /\ lpc = "loop"

LayerIdle ==
    /\ text = <<>>
    /\ layerDepth = 0
    /\ top = 0
    /\ seed = Null
    /\ now = 0
    /\ CURRENT = <<>>
    /\ currentText = <<>>
    /\ layer = 0
    /\ run = 0
    /\ firstRun = Null
    /\ lpc = "idle"

\* layer 1: mine directly from the input text
TrainFirstLayer ==
    /\ lpc = "loop"
    /\ layer <= layerDepth
    /\ layer = 1
    /\ LET ws == normalizeWords(currentText)
           phrases == minePhrases(ws, top)
           pool == shuffle(asciiGlyphPool(DefaultPrefix, DefaultLevels, ALPHA),
                           IF seed # Null THEN seed
                           ELSE <<"t", "a", "p", "e", ":">> \o toDecimal(fnv1a32(text)))
       IN CURRENT' = CURRENT \o newGlyphs(phrases, pool, layer)
    /\ layer' = layer + 1
    /\ UNCHANGED <<text, layerDepth, top, seed, now, currentText, run, firstRun, lpc>>
    /\ UNCHANGED exceptLayers

\* layer 2 and up: mine from the encoded stream
TrainNextLayer ==
    /\ lpc = "loop"
    /\ layer <= layerDepth
    /\ layer # 1
    /\ LET allGlyphs == getGlyphsUpToLayer(CURRENT, layer - 1)
           trie == build(allGlyphs)
           ws == normalizeWords(currentText)
           encodedTokens == encode(ws, trie)
       IN /\ \E t \in now..Len(Instants) :
                /\ now' = t
                /\ CURRENT' = CURRENT \o mineFromEncodedStream(encodedTokens, layer, top, Instants[t])
          /\ currentText' = join(encodedTokens, <<" ">>)
    /\ layer' = layer + 1
    /\ UNCHANGED <<text, layerDepth, top, seed, run, firstRun, lpc>>
    /\ UNCHANGED exceptLayers

TrainReturn ==
    /\ lpc = "loop"
    /\ layer > layerDepth
    /\ lpc' = "done"
    /\ UNCHANGED <<text, layerDepth, top, seed, now, CURRENT, currentText, layer, run, firstRun>>
    /\ UNCHANGED exceptLayers

\* trainLayeredGlyphs is called once more with the same arguments
TrainAgain ==
    /\ lpc = "done"
    /\ run = 1
    /\ firstRun' = CURRENT
    /\ run' = 2
    /\ CURRENT' = <<>>
    /\ currentText' = text
    /\ layer' = 1
    /\ lpc' = "loop"
    /\ UNCHANGED <<text, layerDepth, top, seed, now>>
    /\ UNCHANGED exceptLayers

(***************************************************************************)
(* Phrase miner inputs and operations                                      *)
(***************************************************************************)
MaxMineWords == 4
MaxN == 3

tx == <<"x">>
ty == <<"y">>
tTo == <<"t", "o">>
MineTokens == {tx, ty, tTo}

repeat(s, times) == [i \in 1..(Len(s) * times) |-> s[((i - 1) % Len(s)) + 1]]

\* 86 one-letter words over eleven letters whose 85 bigrams are all distinct
ManyBigrams == [i \in 1..86 |-> <<Lowers[((((i - 1) % 11) * (((i - 1) \div 11) + 1)) % 11) + 1]>>]

\* the same 86 words in another order: the same 85 bigrams, each once, of
\* which k a and a b instead of h e and e b are among the last three met
ReroutedBigrams ==
    [i \in 1..86 |->
        <<Lowers[(IF i <= 66 THEN (((i - 1) % 11) * (((i - 1) \div 11) + 2)) % 11
                  ELSE IF i <= 74 THEN ((i - 67) * 8) % 11
                  ELSE IF i <= 85 THEN (i - 73) % 11
                  ELSE 9) + 1]>>]

\* the short inputs, and the long ones: a bigram 50 times over, and enough
\* different bigrams to use up the glyphs of length 2
ShortInputs == SeqsOf(MineTokens, 0, MaxMineWords)
LongInputs ==
    {repeat(<<a, b>>, 50) : a \in MineTokens, b \in MineTokens} \cup {ManyBigrams, ReroutedBigrams}

\* the n-gram counts of an input, whatever the order the n-grams are met in
countsOf(ws, lo, hi) ==
    LET freq == countKeys(allWindowKeys(ws, lo, hi))
    IN {freq[k] : k \in DOMAIN freq}

MinerInit ==
    /\ \/ sequence \in ShortInputs /\ nMin \in 1..MaxN /\ nMax \in 1..MaxN
       \/ sequence \in LongInputs /\ nMin \in 1..2 /\ nMax = 2
    /\ candidates = <<>>
    /\ other = <<>>
    /\ otherCandidates = <<>>
    /\ mpc = "start"

Mine ==
    /\ mpc = "start"
    /\ candidates' = mine(sequence, nMin, nMax)
    /\ mpc' = "done"
    /\ UNCHANGED <<sequence, nMin, nMax, other, otherCandidates>>
    /\ UNCHANGED exceptMiner

\* mine is called with the same bounds on another input that has the same
\* n-gram counts
MineOther ==
    /\ mpc = "done"
    /\ \E ws \in (IF Len(sequence) <= MaxMineWords THEN ShortInputs ELSE LongInputs) :
         /\ ws # sequence
         /\ Len(ws) = Len(sequence)
         /\ countsOf(ws, nMin, nMax) = countsOf(sequence, nMin, nMax)
         /\ other' = ws
         /\ otherCandidates' = mine(ws, nMin, nMax)
    /\ mpc' = "both"
    /\ UNCHANGED <<sequence, nMin, nMax, candidates>>
    /\ UNCHANGED exceptMiner

MinerIdle ==
    /\ sequence = <<>>
    /\ nMin = 0
    /\ nMax = 0
    /\ candidates = <<>>
    /\ other = <<>>
    /\ otherCandidates = <<>>
    /\ mpc = "idle"

(***************************************************************************)
(* Store inputs and operations                                             *)
(***************************************************************************)
MaxDocs == 2
MaxPasses == 2

DocTexts == {<<>>, <<"c">>, <<"a", " ", "b">>, <<"A", " ", "b", "!", " ", "c">>}
StoreDict == <<[phrase |-> <<ta, tb>>, glyph |-> gX], [phrase |-> <<ta, tb, tc>>, glyph |-> gY]>>
Dictionaries == {<<>>, StoreDict}

\* a store just created by openStore on a new path
StoreInit ==
    /\ dbTokens = EmptyTable
    /\ dbPostings = <<>>
    /\ dbDocBounds = EmptyTable
    /\ dbGlyphDict = EmptyTable
    /\ docs = <<>>
    /\ glyphs = <<>>
    /\ addr = 0
    /\ doc = 0
    /\ pre = 0
    /\ post = 0
    /\ stats = Null
    /\ passes = 0
    /\ spc = "closed"

StoreIdle == StoreInit

\* ingestDocsToStore(docs, dbPath, glyphs) up to the loop over the documents
OpenAndStart ==
    /\ spc = "closed"
    /\ passes < MaxPasses
    /\ \E ds \in SeqsOf(DocTexts, 0, MaxDocs) : docs' = ds
    /\ \E gs \in Dictionaries : glyphs' = gs
    /\ dbGlyphDict' = batchGlyphs(dbGlyphDict,
            [i \in DOMAIN glyphs' |-> <<glyphs'[i].glyph, join(glyphs'[i].phrase, <<" ">>)>>], 1)
    /\ addr' = 0
    /\ pre' = 0
    /\ post' = 0
    /\ doc' = 0
    /\ stats' = Null
    /\ passes' = passes + 1
    /\ spc' = "ingest"
    /\ UNCHANGED <<dbTokens, dbPostings, dbDocBounds>>
    /\ UNCHANGED exceptStore

\* one pass of the loop over the documents
IngestDoc ==
    /\ spc = "ingest"
    /\ doc < Len(docs)
    /\ LET ws == normalizeWords(docs[doc + 1])
           toks == encodeTextToTokens(docs[doc + 1], glyphs)
           start == addr
           addrs == addressesFrom(addr, toks, 1)
           tokenEntries == [k \in DOMAIN toks |-> <<addrs[k], toks[k]>>]
           postingEntries == [k \in DOMAIN toks |-> <<toks[k], addrs[k]>>]
           end == addressAfter(addr, toks, 1)
       IN /\ pre' = pre + Len(ws)
          /\ post' = post + Len(toks)
          /\ dbTokens' = insertTokenBatches(dbTokens, tokenEntries, 0)
          /\ dbPostings' = insertPostingBatches(dbPostings, postingEntries, 0)
          /\ addr' = end
          /\ dbDocBounds' = addDocBounds(dbDocBounds, doc, start, end)
    /\ doc' = doc + 1
    /\ UNCHANGED <<dbGlyphDict, docs, glyphs, stats, passes, spc>>
    /\ UNCHANGED exceptStore

\* after the loop: the statistics, store.close()
CloseAndReturn ==
    /\ spc = "ingest"
    /\ doc >= Len(docs)
    /\ stats' = [docs |-> Len(docs), tokensPre |-> pre, tokensPost |-> post,
                 uniqueTokens |-> Cardinality({dbTokens[a] : a \in DOMAIN dbTokens}),
                 depthD |-> minDepthForSlots(addr)]
    /\ spc' = "closed"
    /\ UNCHANGED <<dbTokens, dbPostings, dbDocBounds, dbGlyphDict, docs, glyphs, addr, doc, pre, post, passes>>
    /\ UNCHANGED exceptStore

(***************************************************************************)
(* Container inputs and operations                                         *)
(***************************************************************************)
MaxInputBytes == 5

\* a glyph list of ten entries: its count is the byte 10 in the header
TenGlyphs == [k \in 1..10 |-> [phrase |-> <<<<DigitChars[k]>>, tb>>, glyph |-> <<"~", Uppers[k]>>]]

\* the glyph files: empty, one entry, an entry whose glyph holds a line
\* feed, and ten entries
GlyphFiles ==
    {<<>>,
     <<[phrase |-> <<ta, tb>>, glyph |-> gX]>>,
     <<[phrase |-> <<ta, tb>>, glyph |-> <<"~", "\n", "X">>], [phrase |-> <<tc>>, glyph |-> gY]>>,
     TenGlyphs}

PackTexts == {<<>>, <<"c">>, <<"a", " ", "b">>, <<"A", " ", "b", "!", " ", "c">>, <<"0", " ", "b", " ", "a">>}

\* the bytes of inputs that no pack wrote
InputBytes == {70, 84, 90, 49, 10, 255}

PackInit ==
    /\ packed = <<>>
    /\ stdin = <<>>
    /\ unpacked = NotRun
    /\ ppc = "start"

PackIdle ==
    /\ packed = <<>>
    /\ stdin = <<>>
    /\ unpacked = NotRun
    /\ ppc = "idle"

\* pack --glyphs file < text
Pack ==
    /\ ppc = "start"
    /\ \E es \in GlyphFiles, t \in PackTexts :
         /\ packed' = [glyphs |-> es, text |-> t]
         /\ stdin' = pack(es, t)
    /\ ppc' = "packed"
    /\ UNCHANGED unpacked
    /\ UNCHANGED exceptPack

\* one of the first four bytes of a container is changed, or the container
\* is cut short within them
Damage ==
    /\ ppc = "packed"
    /\ \/ \E k \in 1..4, b \in InputBytes :
            /\ stdin[k] # b
            /\ stdin' = [stdin EXCEPT ![k] = b]
       \/ \E k \in 0..3 : stdin' = SubSeq(stdin, 1, k)
    /\ ppc' = "other"
    /\ UNCHANGED <<packed, unpacked>>
    /\ UNCHANGED exceptPack

\* any other bytes arrive on stdin
OtherInput ==
    /\ ppc = "start"
    /\ stdin' \in SeqsOf(InputBytes, 0, MaxInputBytes)
    /\ ppc' = "other"
    /\ UNCHANGED <<packed, unpacked>>
    /\ UNCHANGED exceptPack

\* unpack < stdin
Unpack ==
    /\ ppc \in {"packed", "other"}
    /\ unpacked' = unpack(stdin, GlyphFiles)
    /\ ppc' = IF ppc = "packed" THEN "unpacked" ELSE "refused"
    /\ UNCHANGED <<packed, stdin>>
    /\ UNCHANGED exceptPack

(***************************************************************************)
(* Tokenizer inputs and operations                                         *)
(***************************************************************************)
MaxChars == 4

\* letters of both cases, a digit, the apostrophe, white space of three
\* kinds, a punctuation mark, the Kelvin sign and the dotted capital I
TextChars == {"a", "B", "0", "'", " ", "\n", "U+00A0", "!", "U+212A", "U+0130"}

TokenizerInit ==
    /\ input \in SeqsOf(TextChars, 0, MaxChars)
    /\ output = <<>>
    /\ again = <<>>
    /\ kpc = "text"

TokenizerIdle ==
    /\ input = <<>>
    /\ output = <<>>
    /\ again = <<>>
    /\ kpc = "idle"

\* words(text)
Tokenize ==
    /\ kpc = "text"
    /\ output' = normalizeWords(input)
    /\ kpc' = "words"
    /\ UNCHANGED <<input, again>>
    /\ UNCHANGED exceptTokenizer

\* words(words(text).join(' '))
TokenizeAgain ==
    /\ kpc = "words"
    /\ again' = normalizeWords(join(output, <<" ">>))
    /\ kpc' = "done"
    /\ UNCHANGED <<input, output>>
    /\ UNCHANGED exceptTokenizer

------------------------------------------------------------------------------
(***************************************************************************)
(* replacePair inputs and operations                                       *)
(***************************************************************************)
MaxReplaceStream == 6

\* the tokens of the streams: two words and a token that reads like a symbol
ReplaceTokens == {<<"a">>, <<"b">>, <<"0">>}

\* newSymbol: one that is also a token of the streams, and a fresh one
ReplaceSymbols == {<<"0">>, <<"1">>}

ReplaceInit ==
    /\ given \in [stream : SeqsOf(ReplaceTokens, 0, MaxReplaceStream),
                   left : ReplaceTokens, right : ReplaceTokens,
                   newSymbol : ReplaceSymbols]
    /\ replaced = Null
    /\ rpc = "idle"

ReplaceIdle ==
    /\ given = [stream |-> <<>>, left |-> <<"a">>, right |-> <<"a">>, newSymbol |-> <<"1">>]
    /\ replaced = Null
    /\ rpc = "idle"

\* replacePair(stream, pair, newSymbol)
ReplacePair ==
    /\ rpc = "idle"
    /\ replaced' = replacePair(given.stream,
                               [left |-> given.left, right |-> given.right, frequency |-> 0, gain |-> 0],
                               given.newSymbol)
    /\ rpc' = "returned"
    /\ UNCHANGED given
    /\ UNCHANGED exceptReplace

(***************************************************************************)
(* Dictionary training: packages/tape-core/src/bitmap.ts (train)           *)
(***************************************************************************)
\* the safe ASCII alphabet of encode.ts, cut down to one punctuation mark
\* and one lower-case letter
CoreAlpha == <<"!", "d">>

\* poolForTape(seed, prefix, levels)
poolForTape(seedStr, prefix, levels) == shuffle(asciiGlyphPool(prefix, levels, CoreAlpha), seedStr)

\* train: `seed || ...`, where undefined and the empty string are falsy
tapeSeed(t, wordList, seedStr) ==
    IF seedStr # Null /\ seedStr # <<>> THEN seedStr
    ELSE <<"t", "a", "p", "e", ":">> \o toDecimal(<<0, Len(t)>>) \o <<":">>
             \o toDecimal(<<0, Len(wordList)>>)

\* (mutant) every entry gets the first glyph of the pool
firstGlyph(pool, i) == pool[1]

\* train: `glyph: pool[i]`
glyphAt(pool, i) == pool[i]

DefaultNMin == 2
DefaultNMax == 5

\* train(text, {top, nMax, prefix, levels, seed}) with the default nMin
train(t, o) ==
    LET wordList == normalizeWords(t)
        cands == mine(wordList, DefaultNMin, o.nMax)
        pool == poolForTape(tapeSeed(t, wordList, o.seed), o.prefix, o.levels)
        maxGlyphs == Min(o.top, Min(Len(cands), Len(pool)))
    IN [i \in 1..maxGlyphs |->
           [phrase |-> cands[i].phrase, glyph |-> glyphAt(pool, i), gain |-> cands[i].gain]]

MaxTapeWords == 5

\* the words of the texts; one of them reads like a glyph with the prefix a
TapeWords == {<<"a">>, <<"b">>, <<"a", "d">>}
TapeTexts == {join(ws, <<" ">>) : ws \in SeqsOf(TapeWords, 0, MaxTapeWords)}

\* options: top below and above the size of the pool, bigrams only or the
\* default nMax, the default prefix and a letter as prefix, one and two
\* levels, seed left out or given
TrainOptions ==
    [top : {1, 2, 7}, nMax : {2, DefaultNMax}, prefix : {<<"~">>, <<"a">>}, levels : {1, 2},
     seed : {Null, <<"s">>}]

TrainInit ==
    /\ tape \in TapeTexts
    /\ options \in TrainOptions
    /\ trained = <<>>
    /\ squeezed = <<>>
    /\ restored = <<>>
    /\ epc = "idle"

TrainIdle ==
    /\ tape = <<>>
    /\ options = [top |-> 0, nMax |-> 0, prefix |-> <<>>, levels |-> 0, seed |-> Null]
    /\ trained = <<>>
    /\ squeezed = <<>>
    /\ restored = <<>>
    /\ epc = "idle"

\* E = train(text, opts)
Train ==
    /\ epc = "idle"
    /\ trained' = train(tape, options)
    /\ epc' = "trained"
    /\ UNCHANGED <<tape, options, squeezed, restored>>
    /\ UNCHANGED exceptTrain

\* encode(words(text), build(E))
EncodeTape ==
    /\ epc = "trained"
    /\ squeezed' = encode(normalizeWords(tape), build(trained))
    /\ epc' = "encoded"
    /\ UNCHANGED <<tape, options, trained, restored>>
    /\ UNCHANGED exceptTrain

\* decode(encoded, E)
DecodeTape ==
    /\ epc = "encoded"
    /\ restored' = decode(squeezed, trained)
    /\ epc' = "decoded"
    /\ UNCHANGED <<tape, options, trained, squeezed>>
    /\ UNCHANGED exceptTrain

(***************************************************************************)
(* Path codec: packages/tape-core/src/mdl.ts (encodePath, decodePath)      *)
(***************************************************************************)
\* fromBase3: result = result * 3 + parseInt(path[i], 3)
RECURSIVE fromBase3From(_, _, _)
fromBase3From(path, i, acc) ==
    IF i > Len(path) THEN acc
    ELSE fromBase3From(path, i + 1,
                       acc * 3 + (CHOOSE d \in 0..2 : DigitChar(d) = path[i]))

fromBase3(path) == fromBase3From(path, 1, 0)

\* encodePath: the loop `while (num > 0)`.  For 0 <= num < 2^31, num & 0x7F
\* is num % 128, num >>> 7 is num \div 128, and byte | 0x80 is byte + 128
RECURSIVE varintBytes(_)
varintBytes(num) ==
    IF num > 0
    THEN LET low == num % 128
             rest == num \div 128
         IN <<IF rest > 0 THEN low + 128 ELSE low>> \o varintBytes(rest)
    ELSE <<>>

encodePath(path) == varintBytes(fromBase3(path))

\* decodePath: the loop over data.  The bits of (byte & 0x7F) << shift lie
\* above those of num, so num |= ... adds them (shift + 7 stays below 32
\* for the data of the model)
RECURSIVE varintNumber(_, _, _, _)
varintNumber(data, i, num, shift) ==
    IF i > Len(data) THEN num
    ELSE LET next == num + (data[i] % 128) * (2 ^ shift)
         IN IF data[i] < 128 THEN next
            ELSE varintNumber(data, i + 1, next, shift + 7)

\* decodePath: toBase3(num) with the default minLength of 1
decodePath(data) == toBase3(varintNumber(data, 1, 0, 0), 1)

MaxPathLen == 6

\* the valid base-3 paths: the non-empty strings over 0, 1, 2
ValidPaths == SeqsOf({"0", "1", "2"}, 1, MaxPathLen)

CodecInit ==
    /\ route \in ValidPaths
    /\ varint = <<>>
    /\ decodedPath = <<>>
    /\ vpc = "path"

CodecIdle ==
    /\ route = <<>>
    /\ varint = <<>>
    /\ decodedPath = <<>>
    /\ vpc = "idle"

EncodePath ==
    /\ vpc = "path"
    /\ varint' = encodePath(route)
    /\ vpc' = "encoded"
    /\ UNCHANGED <<route, decodedPath>>
    /\ UNCHANGED exceptCodec

DecodePath ==
    /\ vpc = "encoded"
    /\ decodedPath' = decodePath(varint)
    /\ vpc' = "decoded"
    /\ UNCHANGED <<route, varint>>
    /\ UNCHANGED exceptCodec

InitTrie == TrieInit /\ GrammarIdle /\ AddressIdle /\ LayerIdle /\ MinerIdle /\ StoreIdle /\ PackIdle /\ TokenizerIdle /\ ReplaceIdle /\ TrainIdle /\ CodecIdle
NextTrie == Encode \/ Decode
SpecTrie == InitTrie /\ [][NextTrie]_vars

InitAddress == AddressInit /\ TrieIdle /\ GrammarIdle /\ LayerIdle /\ MinerIdle /\ StoreIdle /\ PackIdle /\ TokenizerIdle /\ ReplaceIdle /\ TrainIdle /\ CodecIdle
NextAddress == AddressToPoint \/ PointToAddress \/ CorePointToAddress
SpecAddress == InitAddress /\ [][NextAddress]_vars

InitGrammar == GrammarInit /\ TrieIdle /\ AddressIdle /\ LayerIdle /\ MinerIdle /\ StoreIdle /\ PackIdle /\ TokenizerIdle /\ ReplaceIdle /\ TrainIdle /\ CodecIdle
NextGrammar ==
    \/ DefineSymbol \/ AddRule
    \/ StartRepair \/ StartSequitur \/ StartHybrid
    \/ RepairRound \/ HybridSequitur \/ SequiturRound
    \/ Validate \/ Expand
SpecGrammar == InitGrammar /\ [][NextGrammar]_vars

\* runRepair and runSequitur from call to return.  Their loops run on: a
\* loop whose condition can be evaluated is not suspended for ever
NextInduction == StartRepair \/ StartSequitur \/ RepairRound \/ SequiturRound
SpecInduction ==
    /\ InitGrammar
    /\ [][NextInduction]_vars
    /\ WF_vars(RepairRound)
    /\ WF_vars(SequiturRound)

InitLayers == LayerInit /\ TrieIdle /\ GrammarIdle /\ AddressIdle /\ MinerIdle /\ StoreIdle /\ PackIdle /\ TokenizerIdle /\ ReplaceIdle /\ TrainIdle /\ CodecIdle
NextLayers == TrainFirstLayer \/ TrainNextLayer \/ TrainReturn \/ TrainAgain
SpecLayers == InitLayers /\ [][NextLayers]_vars

InitMiner == MinerInit /\ TrieIdle /\ GrammarIdle /\ AddressIdle /\ LayerIdle /\ StoreIdle /\ PackIdle /\ TokenizerIdle /\ ReplaceIdle /\ TrainIdle /\ CodecIdle
NextMiner == Mine \/ MineOther
SpecMiner == InitMiner /\ [][NextMiner]_vars

InitStore == StoreInit /\ TrieIdle /\ GrammarIdle /\ AddressIdle /\ LayerIdle /\ MinerIdle /\ PackIdle /\ TokenizerIdle /\ ReplaceIdle /\ TrainIdle /\ CodecIdle
NextStore == OpenAndStart \/ IngestDoc \/ CloseAndReturn
SpecStore == InitStore /\ [][NextStore]_vars

InitPack == PackInit /\ TrieIdle /\ GrammarIdle /\ AddressIdle /\ LayerIdle /\ MinerIdle /\ StoreIdle /\ TokenizerIdle /\ ReplaceIdle /\ TrainIdle /\ CodecIdle
NextPack == Pack \/ Damage \/ OtherInput \/ Unpack
SpecPack == InitPack /\ [][NextPack]_vars

InitTokenizer == TokenizerInit /\ TrieIdle /\ GrammarIdle /\ AddressIdle /\ LayerIdle /\ MinerIdle /\ StoreIdle /\ PackIdle /\ ReplaceIdle /\ TrainIdle /\ CodecIdle
NextTokenizer == Tokenize \/ TokenizeAgain
SpecTokenizer == InitTokenizer /\ [][NextTokenizer]_vars

InitTrain == TrainInit /\ TrieIdle /\ GrammarIdle /\ AddressIdle /\ LayerIdle /\ MinerIdle /\ StoreIdle /\ PackIdle /\ TokenizerIdle /\ ReplaceIdle /\ CodecIdle
NextTrain == Train \/ EncodeTape \/ DecodeTape
SpecTrain == InitTrain /\ [][NextTrain]_vars

InitCodec == CodecInit /\ TrieIdle /\ GrammarIdle /\ AddressIdle /\ LayerIdle /\ MinerIdle /\ StoreIdle /\ PackIdle /\ TokenizerIdle /\ ReplaceIdle /\ TrainIdle
NextCodec == EncodePath \/ DecodePath
SpecCodec == InitCodec /\ [][NextCodec]_vars

InitReplace == ReplaceInit /\ TrieIdle /\ GrammarIdle /\ AddressIdle /\ LayerIdle /\ MinerIdle /\ StoreIdle /\ PackIdle /\ TokenizerIdle /\ TrainIdle /\ CodecIdle
NextReplace == ReplacePair
SpecReplace == InitReplace /\ [][NextReplace]_vars

(***************************************************************************)
(* Trie codec properties                                                   *)
(***************************************************************************)
Range(f) == {f[x] : x \in DOMAIN f}
GlyphStrings(es) == {es[k].glyph : k \in DOMAIN es}
LiteralVocabulary(es, ws) == Range(ws) \cup UNION {Range(es[k].phrase) : k \in DOMAIN es}
DisjointVocabularies(es, ws) == GlyphStrings(es) \cap LiteralVocabulary(es, ws) = {}
\* no glyph string stands for two different phrases
UnambiguousGlyphs(es) ==
    \A j, k \in DOMAIN es : es[j].glyph = es[k].glyph => es[j].phrase = es[k].phrase

\* C1 as stated: for every token sequence and every glyph dictionary whose
\* glyph strings are disjoint from the literal vocabulary, decoding the
\* encoded stream returns exactly the original token sequence.
C1_RoundTripAsStated ==
    (tpc = "decoded" /\ DisjointVocabularies(entries, words)) => decoded = words

\* C1 amended: the round trip holds for every token sequence and every glyph
\* dictionary whose glyph strings are disjoint from the literal vocabulary
\* and in which no glyph string is assigned to two different phrases.
C1_RoundTrip ==
    (tpc = "decoded" /\ DisjointVocabularies(entries, words) /\ UnambiguousGlyphs(entries))
        => decoded = words

\* a two-entry dictionary was applied, a glyph replaced a phrase of two or
\* more words, and decoding restored the input
C1_Witness ==
    /\ tpc = "decoded"
    /\ DisjointVocabularies(entries, words)
    /\ UnambiguousGlyphs(entries)
    /\ Len(entries) = 2
    /\ Len(tokens) < Len(words)
    /\ decoded = words

\* The dictionary phrases that match the input at position i: the entries
\* whose phrase is a prefix of ws[i..].
MatchesAt(es, ws, i) ==
    {k \in DOMAIN es : /\ i + Len(es[k].phrase) - 1 <= Len(ws)
                       /\ SubSeq(ws, i, i + Len(es[k].phrase) - 1) = es[k].phrase}

SetMax(S) == CHOOSE m \in S : \A x \in S : x <= m

\* Longest-match encoding stated over the dictionary, with no trie: at each
\* position the longest matching phrase (the last entry holding it) is
\* replaced by its glyph, else the raw token is copied.
RECURSIVE LongestMatchFrom(_, _, _)
LongestMatchFrom(es, ws, i) ==
    IF i > Len(ws) THEN <<>>
    ELSE LET M == MatchesAt(es, ws, i) IN
         IF M = {} THEN <<ws[i]>> \o LongestMatchFrom(es, ws, i + 1)
         ELSE LET L == SetMax({Len(es[k].phrase) : k \in M})
                  last == SetMax({k \in M : Len(es[k].phrase) = L})
              IN <<es[last].glyph>> \o LongestMatchFrom(es, ws, i + L)

PrefixDict == <<[phrase |-> <<ta, tb>>, glyph |-> gX], [phrase |-> <<ta, tb, tc>>, glyph |-> gY]>>

\* C2: encode emits, at each scan position, the glyph of the longest
\* dictionary phrase matching there and advances by its length, or the raw
\* token when none matches; with [a,b]->X and [a,b,c]->Y, [a,b,c] encodes
\* to [Y].
C2_LongestMatch ==
    tpc # "start" =>
        /\ tokens = LongestMatchFrom(entries, words, 1)
        /\ (entries = PrefixDict /\ words = <<ta, tb, tc>>) => tokens = <<gY>>

\* the example of the claim, and a walk that went deeper than the match:
\* after [a] -> X the walk follows a, b of the phrase [a,b,c] and fails on
\* the third word
C2_Witness ==
    /\ tpc = "encoded"
    /\ entries = PrefixDict
    /\ words = <<ta, tb, tc>>
    /\ tokens = <<gY>>

C2_WitnessDeeperWalk ==
    /\ tpc = "encoded"
    /\ entries = <<[phrase |-> <<ta>>, glyph |-> gX], [phrase |-> <<ta, tb, tc>>, glyph |-> gY]>>
    /\ words = <<ta, tb, ta>>
    /\ tokens = <<gX, tb, gX>>

(***************************************************************************)
(* Grammar properties                                                      *)
(***************************************************************************)
\* C3: after any sequence of defineSymbol calls (pair induction included)
\* whose children are previously defined symbols or raw tokens of the
\* tokenizer, the grammar has no cycle.
C3_CycleFree == ~hasCycles(grammar)

\* the fixed-width base-3 address of value n and width d
Address(n, d) == [i \in 1..d |-> DigitChar((n \div Pow3(d - i)) % 3)]

\* the k-th address (k >= 1) in order of depth, then value:
\* 0, 1, 2, 00, 01, 02, 10, ...
RECURSIVE KthAddress(_, _)
KthAddress(k, d) == IF k <= Pow3(d) THEN Address(k - 1, d) ELSE KthAddress(k - Pow3(d), d + 1)

\* C4: starting from an empty grammar the successive defineSymbol calls
\* assign 0, 1, 2, 00, 01, 02, 10, ...: the lowest unused address of the
\* shallowest depth that still has one.
C4_ShortlexAddresses ==
    \A k \in DOMAIN grammar.symbols : grammar.symbols[k] = KthAddress(k, 1)

\* C5: defineSymbol never throws, and pair induction over any stream
\* completes without an exception.
C5_NeverThrows == gpc # "threw"
\* C15: after any sequence of defineSymbol and addRule calls on a grammar
\* made by createGrammar, the set symbols is the key set of rules, each rule
\* is stored under its own symbol, and depth is the length of the longest
\* symbol ever assigned (0 for the empty grammar).
C15_SymbolsRulesDepth ==
    /\ SetOf(grammar.symbols) = DOMAIN grammar.rules
    /\ Cardinality(SetOf(grammar.symbols)) = Len(grammar.symbols)
    /\ \A s \in DOMAIN grammar.rules : grammar.rules[s].symbol = s
    /\ grammar.depth = SetMax({Len(grammar.symbols[k]) : k \in DOMAIN grammar.symbols} \cup {0})

\* a long symbol was added first, shorter ones after it by both operations
C15_Witness ==
    /\ Len(grammar.symbols) >= 3
    /\ grammar.symbols[1] = <<"2", "2">>
    /\ grammar.symbols[2] = <<"0">>
    /\ grammar.symbols[3] = <<"1">>
    /\ grammar.depth = 2
    /\ grammar.rules[<<"0">>].children = <<wFractals>>
    /\ grammar.rules[<<"1">>].children = <<<<"2", "2">>, wFractals>>

\* the grammar is the one a pair induction run is building or has built
Induced == gpc \in {"repair", "returned", "sequitur", "done"}

\* C14: every rule that pair induction adds to the grammar has
\* mdlGain(rule, frequency, lambda) > 0, where ruleCost is lambda * (3 +
\* len(symbol) + 2 * len(children) + len(expansion joined by spaces)) and
\* ruleSavings is (len(expansion joined by spaces) - len(symbol)) * frequency.
C14_PositiveMdlGain ==
    Induced =>
        \A s \in DOMAIN grammar.rules :
            mdlGain(grammar.rules[s], grammar.rules[s].frequency, DefaultLambda) > 0

\* the loop of the running phase has a reason to stop: its iterations are
\* used up, the stream has no adjacent pair, or the gain of its most
\* frequent pair is not positive
PhaseMustStop ==
    LET pair == findMostFrequentPair(currentStream) IN
    \/ iterations >= maxIterations
    \/ Len(currentStream) < 2
    \/ (Len(pair.left) + Len(pair.right) + 1 - 2) * pair.frequency - (3 + 2 + 2) * DefaultLambda <= 0

\* the rules the hybrid run has made stay within the shares of its budget
HybridWithinBudget ==
    caller = "runHybridInduction" =>
        /\ created[1] + created[2] <= budget
        /\ created[1] <= (7 * budget) \div 10
        /\ created[2] <= budget - (7 * budget) \div 10
        /\ Len(grammar.symbols) = created[1] + created[2]

\* a step of the hybrid run that adds a rule in the Sequitur phase adds it
\* for a pair that is adjacent at two or more positions of the stream
SequiturRuleIsFrequent ==
    (caller = "runHybridInduction" /\ created'[2] > created[2]) =>
        /\ gpc = "sequitur"
        /\ Len(grammar'.symbols) = Len(grammar.symbols) + 1
        /\ LET rule == grammar'.rules[grammar'.symbols[Len(grammar'.symbols)]] IN
           /\ Len(rule.children) = 2
           /\ pairFrequency(currentStream, rule.children[1], rule.children[2]) >= 2

\* a step of a phase that must stop ends the phase and adds no rule (a step
\* to "expanded" is the client's expandStream on the round's stream, not a
\* step of the phase)
StopsAtOnce ==
    (/\ caller = "runHybridInduction"
     /\ gpc \in {"repair", "sequitur"}
     /\ gpc' # "expanded"
     /\ PhaseMustStop) =>
        /\ gpc' \in {"returned", "done"}
        /\ grammar' = grammar
        /\ currentStream' = currentStream
        /\ created' = created

\* C19: runHybridInduction creates at most maxIterations rules in total, at
\* most floor(0.7 * maxIterations) of them in the RePair phase and at most
\* the remaining budget in the Sequitur phase; every rule created in the
\* Sequitur phase is for a pair whose frequency in the current stream is at
\* least 2; and each phase stops as soon as no adjacent pair exists, the most
\* frequent pair has non-positive gain, or its budget is exhausted.
C19_HybridBudgetAndStops ==
    /\ []HybridWithinBudget
    /\ [][SequiturRuleIsFrequent]_vars
    /\ [][StopsAtOnce]_vars

\* a hybrid run with budget 2 has spent its one RePair iteration and its
\* one Sequitur iteration, each on a rule
C19_Witness ==
    /\ caller = "runHybridInduction"
    /\ budget = 2
    /\ created = <<1, 1>>
    /\ Len(currentStream) = 2
    /\ gpc = "done"

\* a hybrid run whose RePair phase stopped on a pair without gain, and whose
\* Sequitur phase stopped on the same pair
C19_WitnessNoGain ==
    /\ caller = "runHybridInduction"
    /\ budget = DefaultMaxIterations
    /\ created = <<0, 0>>
    /\ Len(currentStream) >= 2
    /\ gpc = "done"

\* a step of a pair induction loop that accepts a round: a rule is added
AcceptedRound ==
    /\ gpc \in {"repair", "sequitur"}
    /\ Len(grammar'.symbols) = Len(grammar.symbols) + 1

\* the rule that the step adds
AddedRule == grammar'.rules[grammar'.symbols[Len(grammar'.symbols)]]

\* the occurrences the step substitutes: each one takes a token off the stream
Substituted == Len(currentStream) - Len(currentStream')

\* C21: after each accepted induction round, the frequency recorded on the
\* new rule (the value used to estimate the gain of the rule) equals the
\* number of occurrences of the pair that replacePair substituted in the
\* stream in that round.
C21_FrequencyIsSubstituted ==
    [][AcceptedRound => AddedRule.frequency = Substituted]_vars

\* a raw token is a word of the tokenizer: letters, digits and apostrophes
IsRawToken(token) == Len(token) >= 1 /\ \A k \in DOMAIN token : token[k] \in WordChars

\* validateGrammar has pushed `Rule s references undefined symbol child`
UndefinedReported(s, child) ==
    \E k \in DOMAIN errors :
        errors[k].kind = "undefined symbol" /\ errors[k].symbol = s /\ errors[k].child = child

\* C22: validateGrammar reports an undefined-symbol error for a child of a
\* rule exactly when that child is neither a registered symbol nor a raw
\* token; in particular a grammar built only by defineSymbol from raw-token
\* children and previously defined symbols validates with no errors.
C22_UndefinedSymbolErrors ==
    gpc = "validated" =>
        /\ \A s \in DOMAIN grammar.rules :
               \A k \in DOMAIN grammar.rules[s].children :
                   LET child == grammar.rules[s].children[k] IN
                   UndefinedReported(s, child) <=>
                       (child \notin SetOf(grammar.symbols) /\ ~IsRawToken(child))
        /\ caller # "none" => Len(errors) = 0

\* a is a registered symbol and b a child of its rule
ChildOf(a, b) == a \in DOMAIN grammar.rules /\ b \in SetOf(grammar.rules[a].children)

\* some registered symbol reaches itself through one or more child references
SomeSymbolReachesItself ==
    \E n \in 1..Len(grammar.symbols) :
        \E p \in [1..n -> SetOf(grammar.symbols)] :
            \A i \in 1..n : ChildOf(p[i], p[IF i = n THEN 1 ELSE i + 1])

\* validateGrammar has pushed `Grammar contains cycles`: hasCycles returned true
CyclesReported == \E k \in DOMAIN errors : errors[k].kind = "cycles"

\* C23: hasCycles(grammar) returns true exactly when some registered symbol
\* can reach itself through one or more child references; it returns false
\* for every acyclic grammar, including DAGs in which one symbol is a child
\* of several rules.
C23_CyclesExactly ==
    gpc = "validated" => (CyclesReported <=> SomeSymbolReachesItself)

\* a grammar in which the symbol 0 is a child of two rules and of no rule
\* above itself was found free of cycles
C23_Witness ==
    /\ gpc = "validated"
    /\ ~CyclesReported
    /\ \E a, b \in SetOf(grammar.symbols) :
           a # b /\ ChildOf(a, <<"0">>) /\ ChildOf(b, <<"0">>) /\ <<"0">> \in SetOf(grammar.symbols)

\* a grammar whose only cycle runs through two symbols was found cyclic
C23_WitnessCycle ==
    /\ gpc = "validated"
    /\ CyclesReported
    /\ \E a, b \in SetOf(grammar.symbols) : a # b /\ ChildOf(a, b) /\ ChildOf(b, a)
    /\ \A a \in SetOf(grammar.symbols) : ~ChildOf(a, a)

\* every rule of the grammar is a rule of the grammar after the step, with
\* the same symbol, children, expansion and frequency
RulesKept ==
    \A s \in DOMAIN grammar.rules :
        /\ s \in DOMAIN grammar'.rules
        /\ grammar'.rules[s].symbol = grammar.rules[s].symbol
        /\ grammar'.rules[s].children = grammar.rules[s].children
        /\ grammar'.rules[s].expansion = grammar.rules[s].expansion
        /\ grammar'.rules[s].frequency = grammar.rules[s].frequency

\* a step in which addRule returned false
AddRuleRefused == gpc = "idle" /\ gpc' = "idle" /\ newSymbol' = Null

\* C24: rules are immutable once created: defineSymbol and addRule never
\* modify or remove an existing rule (its symbol, children, expansion and
\* frequency stay the same through any later sequence of calls, including a
\* whole induction run), and addRule with an already-registered symbol
\* returns false leaving rules, symbols and depth unchanged.
C24_RulesImmutable ==
    /\ [][RulesKept]_vars
    /\ [][AddRuleRefused => grammar' = grammar]_vars

\* addRule was refused for the symbol 0, whose rule is the one defineSymbol
\* made, with another rule added after it
C24_Witness ==
    /\ gpc = "idle"
    /\ newSymbol = Null
    /\ Len(grammar.symbols) = 2
    /\ grammar.symbols[1] = <<"0">>
    /\ grammar.rules[<<"0">>].children = <<wFractals, wFractals>>

\* C25: pair induction is lossless: for every token stream s produced by
\* the tokenizer and every maxIterations, if runHybridInduction (or runRepair
\* or runSequitur) on an initially empty grammar returns the stream s', then
\* expandStream(grammar, s') = s, and this still holds after every
\* intermediate round.
C25_Lossless ==
    gpc = "expanded" => (~expanded.threw /\ expanded.value = original)

\* a loop of pair induction is running
InLoop == gpc \in {"repair", "sequitur"}

\* the rounds accepted so far are fewer than the tokens of the given stream
RoundsBelowLength ==
    created[1] + created[2] <= Max(Len(original) - 1, 0)

\* C29: every accepted induction round strictly shortens the stream (at
\* least one pair occurrence is replaced, removing at least one token), so
\* runRepair and runSequitur terminate on every finite stream and perform at
\* most len(stream) - 1 rounds, independently of maxIterations.
C29_RoundsShortenAndEnd ==
    /\ [][AcceptedRound => Len(currentStream') < Len(currentStream)]_vars
    /\ []RoundsBelowLength
    /\ (InLoop ~> ~InLoop)

\* runRepair with the default budget made two rules on a stream of three
\* tokens and returned a stream of one
C29_Witness ==
    /\ caller = "runRepair"
    /\ budget = DefaultMaxIterations
    /\ gpc = "done"
    /\ Len(original) = 3
    /\ created = <<2, 0>>
    /\ Len(currentStream) = 1

(***************************************************************************)
(* Address space properties                                                *)
(***************************************************************************)
\* C6: for every depth D and every integer a in [0, 3^D), the barycentric
\* inverse maps the centroid addressToPoint(toBase3(a, D)) back to
\* toBase3(a, D).
C6_BarycentricInverse == inverse # Null => inverse = code

\* an address that uses all three digits went through both maps
C6_Witness ==
    /\ code = <<"1", "2", "0">>
    /\ point = addressToPoint(code)
    /\ inverse = code

GlyphsBelow(k) == {CURRENT[i].glyph : i \in {j \in DOMAIN CURRENT : CURRENT[j].layer < k}}

\* C8: every token of a layer-k phrase is a glyph of a layer below k or a
\* literal word of the text (layer 1 is mined from the normalized words of
\* the raw text, layer k from the text encoded with the layers below k), so
\* no phrase refers to anything else.
C8_LayerTokens ==
    \A i \in DOMAIN CURRENT :
        \A j \in DOMAIN CURRENT[i].phrase :
            CURRENT[i].phrase[j] \in GlyphsBelow(CURRENT[i].layer) \cup Range(normalizeWords(text))

\* C13: glyph assignment is a function of its inputs: two runs of
\* trainLayeredGlyphs with the same text, layer depth and options (seed,
\* prefix, levels) give the same shuffled pool and so the same phrase-to-glyph
\* dictionary at every layer.
C13_SameDictionary ==
    (lpc = "done" /\ run = 2) => CURRENT = firstRun

\* C26: the glyph strings of the dictionary left by trainLayeredGlyphs are
\* pairwise distinct across all layers and every entry has a defined glyph,
\* so the glyph-to-phrase map used by decode is unambiguous (no glyph of
\* layer k equals a glyph of another layer or of another phrase).
C26_DistinctGlyphs ==
    lpc = "done" =>
        /\ \A i \in DOMAIN CURRENT : Len(CURRENT[i].glyph) >= 1
        /\ \A i, j \in DOMAIN CURRENT : i # j => CURRENT[i].glyph # CURRENT[j].glyph

(***************************************************************************)
(* Phrase miner properties                                                 *)
(***************************************************************************)
Positions(ws, p) == {i \in 1..(Len(ws) - Len(p) + 1) : SubSeq(ws, i, i + Len(p) - 1) = p}
Occurrences(ws, p) == Cardinality(Positions(ws, p))
FirstAt(ws, p) == CHOOSE i \in Positions(ws, p) : \A h \in Positions(ws, p) : i <= h
\* p is met before q when the windows are taken shortest first, left to right
MetBefore(ws, p, q) ==
    \/ Len(p) < Len(q)
    \/ Len(p) = Len(q) /\ FirstAt(ws, p) < FirstAt(ws, q)
NGrams(ws, lo, hi) ==
    UNION {{SubSeq(ws, i, i + n - 1) : i \in 1..(Len(ws) - n + 1)} : n \in lo..hi}
Chars(p) == Len(join(p, <<" ">>))
Kept(cands) == {cands[i].phrase : i \in DOMAIN cands}
\* the glyph length estimated for p: 2, 3 or 4 by its rank among the kept
RankLength(ws, cands, p) ==
    LET rank == Cardinality({q \in Kept(cands) : MetBefore(ws, q, p)})
    IN IF rank < 82 THEN 2 ELSE IF rank < 82 + 82 * 82 THEN 3 ELSE 4
GainOf(ws, cands, p) == (Chars(p) - RankLength(ws, cands, p)) * Occurrences(ws, p)

IsRepeatedBigram(ws) ==
    /\ Len(ws) = 100
    /\ ws[1] # ws[2]
    /\ ws = repeat(<<ws[1], ws[2]>>, 50)

\* a bigram that occurs once with chars <= glyphLength yields no candidate
C9_OnceAndShortDropped ==
    (mpc = "done" /\ nMin <= 2 /\ 2 <= nMax) =>
        \A p \in NGrams(sequence, 2, 2) :
            (Occurrences(sequence, p) = 1 /\ Chars(p) <= RankLength(sequence, candidates, p))
                => p \notin Kept(candidates)

\* C9 as stated: for the bigram (x, y) repeated 50 times, mine(seq, 2, 2)
\* returns exactly one candidate, [x, y] with frequency 50 and gain
\* (chars - glyphLength) * 50 > 0; and a bigram that occurs once with
\* chars <= glyphLength yields no candidate.
C9_OneCandidateAsStated ==
    /\ (mpc = "done" /\ IsRepeatedBigram(sequence) /\ nMin = 2 /\ nMax = 2) =>
            /\ Len(candidates) = 1
            /\ candidates[1].phrase = <<sequence[1], sequence[2]>>
            /\ candidates[1].count = 50
            /\ candidates[1].gain = (candidates[1].chars - 2) * 50
            /\ candidates[1].gain > 0
    /\ C9_OnceAndShortDropped

\* C9 amended: for the bigram (x, y) of two different tokens repeated 50
\* times, mine(seq, 2, 2) returns [x, y] with frequency 50 and gain
\* (chars - glyphLength) * 50 > 0 as its first candidate, followed by one
\* more, the bigram [y, x] that straddles the repetitions, with frequency 49;
\* and a bigram that occurs once with chars <= glyphLength yields no
\* candidate.
C9_RepeatedBigram ==
    /\ (mpc = "done" /\ IsRepeatedBigram(sequence) /\ nMin = 2 /\ nMax = 2) =>
            /\ Len(candidates) = 2
            /\ candidates[1].phrase = <<sequence[1], sequence[2]>>
            /\ candidates[1].count = 50
            /\ candidates[1].gain = (candidates[1].chars - 2) * 50
            /\ candidates[1].gain > 0
            /\ candidates[2].phrase = <<sequence[2], sequence[1]>>
            /\ candidates[2].count = 49
            /\ candidates[2].gain = (candidates[2].chars - 2) * 49
    /\ C9_OnceAndShortDropped

\* the repeated bigram was mined
C9_Witness ==
    /\ mpc = "done"
    /\ sequence = repeat(<<tx, tTo>>, 50)
    /\ nMin = 2
    /\ nMax = 2
    /\ Len(candidates) = 2
    /\ candidates[1] = [phrase |-> <<tx, tTo>>, count |-> 50, chars |-> 4, gain |-> 100]

\* bigrams that occur once with chars = glyphLength = 3 were dropped
C9_WitnessDropped ==
    /\ mpc = "done"
    /\ sequence = ManyBigrams
    /\ nMin = 2
    /\ nMax = 2
    /\ Len(candidates) = 82
    /\ \E p \in NGrams(sequence, 2, 2) :
          /\ Occurrences(sequence, p) = 1
          /\ Chars(p) = 3
          /\ RankLength(sequence, candidates, p) = 3
          /\ p \notin Kept(candidates)

\* C10: mine(tokens, nMin, nMax) returns exactly the distinct n-grams
\* (nMin <= n <= nMax) of the input whose gain (chars - glyphLength) *
\* frequency is positive, frequency being the number of window positions
\* where the phrase occurs and chars the length of the phrase joined by
\* single spaces; the result is sorted by gain descending, then phrase
\* length descending, then space-joined phrase ascending; a sequence shorter
\* than nMin yields no candidates.
C10_MineResult ==
    mpc = "done" =>
        /\ \A i, j \in DOMAIN candidates :
                candidates[i].phrase = candidates[j].phrase => i = j
        /\ Kept(candidates) =
                {p \in NGrams(sequence, nMin, nMax) : GainOf(sequence, candidates, p) > 0}
        /\ \A i \in DOMAIN candidates :
                LET c == candidates[i]
                IN /\ c.count = Occurrences(sequence, c.phrase)
                   /\ c.chars = Chars(c.phrase)
                   /\ c.gain = GainOf(sequence, candidates, c.phrase)
        /\ \A i, j \in DOMAIN candidates :
                i < j =>
                    LET a == candidates[i]
                        b == candidates[j]
                    IN \/ a.gain > b.gain
                       \/ a.gain = b.gain /\ Len(a.phrase) > Len(b.phrase)
                       \/ /\ a.gain = b.gain
                          /\ Len(a.phrase) = Len(b.phrase)
                          /\ localeCompare(join(a.phrase, <<" ">>), join(b.phrase, <<" ">>)) < 0
        /\ Len(sequence) < nMin => candidates = <<>>

\* a mined sequence with unigrams dropped and a tie on gain and length
C10_Witness ==
    /\ mpc = "done"
    /\ sequence = <<tTo, tx, ty, tx>>
    /\ nMin = 1
    /\ nMax = 3
    /\ Len(candidates) = 5
    /\ candidates[1].phrase = <<tTo, tx, ty>>

\* C18: the output of mine (the candidates kept, their gains and their
\* order) depends only on the occurrence count of each phrase, not on the
\* order in which the distinct phrases are first met: two inputs with the
\* same n-gram counts give the same ranked list.
C18_CountsDecide ==
    mpc = "both" => otherCandidates = candidates

(***************************************************************************)
(* Store properties                                                        *)
(***************************************************************************)
\* the tokens emitted for the first n documents of the pass, in order
RECURSIVE Emitted(_, _, _)
Emitted(ds, gs, n) ==
    IF n = 0 THEN <<>> ELSE Emitted(ds, gs, n - 1) \o encodeTextToTokens(ds[n], gs)

\* C11: within one ingestDocsToStore pass the k-th emitted token (from 0,
\* across the documents in order) is stored at address k, so the addresses
\* are contiguous and increasing without gap or repeat; document i gets the
\* bounds [start_i, end_i) with start_0 = 0, start_(i+1) = end_i and
\* end_i - start_i the number of tokens encoded for document i.
C11_ContiguousAddresses ==
    passes > 0 =>
        LET out == Emitted(docs, glyphs, doc)
        IN /\ addr = Len(out)
           /\ \A k \in 0..(Len(out) - 1) :
                k \in DOMAIN dbTokens /\ dbTokens[k] = out[k + 1]
           /\ \A i \in 0..(doc - 1) :
                /\ i \in DOMAIN dbDocBounds
                /\ dbDocBounds[i].start = (IF i = 0 THEN 0 ELSE dbDocBounds[i - 1].end)
                /\ dbDocBounds[i].end - dbDocBounds[i].start
                        = Len(encodeTextToTokens(docs[i + 1], glyphs))

\* two documents were ingested, the second one behind the first
C11_Witness ==
    /\ spc = "closed"
    /\ passes = 1
    /\ docs = << <<"a", " ", "b">>, <<"A", " ", "b", "!", " ", "c">> >>
    /\ glyphs = StoreDict
    /\ dbTokens = (0 :> gX) @@ (1 :> gY)
    /\ dbDocBounds = (0 :> [start |-> 0, end |-> 1]) @@ (1 :> [start |-> 1, end |-> 2])

\* C12: addresses are append-only: once an address has a token, no later
\* operation, a later ingestion pass into the same store included, changes
\* the token stored at it or the document bounds that cover it.
C12_AppendOnly ==
    [][ /\ \A a \in DOMAIN dbTokens :
              a \in DOMAIN dbTokens' /\ dbTokens'[a] = dbTokens[a]
        /\ \A d \in DOMAIN dbDocBounds :
              d \in DOMAIN dbDocBounds' /\ dbDocBounds'[d] = dbDocBounds[d] ]_vars

\* C28: after any sequence of ingestDocsToStore passes into the same store,
\* the posting table and the token table agree: for every stored posting
\* (token t, address a) the token stored at address a is t, and every stored
\* address has exactly one posting.
C28_PostingsAgree ==
    spc = "closed" =>
        /\ \A k \in DOMAIN dbPostings :
               /\ dbPostings[k][2] \in DOMAIN dbTokens
               /\ dbTokens[dbPostings[k][2]] = dbPostings[k][1]
        /\ \A a \in DOMAIN dbTokens :
               Cardinality({k \in DOMAIN dbPostings : dbPostings[k][2] = a}) = 1

(***************************************************************************)
(* Container properties                                                    *)
(***************************************************************************)
\* C16: unpack rejects (error exit, nothing decoded on stdout) every input
\* whose first four bytes are not the magic 'FTZ1' that pack writes, and
\* every container written by pack passes the magic check and is split at
\* the first line feed behind the 8-byte header into the glyph dictionary
\* and the token stream.
C16_MagicAndSplit ==
    /\ (ppc \in {"unpacked", "refused"}
            /\ (Len(stdin) < 4 \/ SubSeq(stdin, 1, 4) # <<70, 84, 90, 49>>))
            => (unpacked.exit = 1 /\ unpacked.stderr = "Invalid .ftz file" /\ unpacked.stdout = <<>>)
    /\ ppc = "unpacked"
            => /\ unpacked.exit = 0
               /\ unpacked.glyphData = jsonStringify(packed.glyphs)
               /\ unpacked.tokenData
                    = join(encode(normalizeWords(packed.text), build(packed.glyphs)), <<" ">>)
               /\ stdin = <<70, 84, 90, 49>> \o uint32LE(Len(packed.glyphs))
                            \o unpacked.glyphData \o <<10>> \o utf8Bytes(unpacked.tokenData)

\* a container of ten glyphs, whose header holds the byte 10, was unpacked
C16_Witness ==
    /\ ppc = "unpacked"
    /\ packed.glyphs = TenGlyphs
    /\ packed.text = <<"0", " ", "b", " ", "a">>
    /\ stdin[5] = 10
    /\ unpacked.tokenData = <<"~", "A", " ", "a">>
    /\ unpacked.stdout = <<"0", " ", "b", " ", "a">>

\* a container with a changed magic byte was refused
C16_WitnessRefused ==
    /\ ppc = "refused"
    /\ Len(stdin) > 8
    /\ SubSeq(stdin, 1, 4) = <<70, 84, 90, 10>>
    /\ unpacked.exit = 1
    /\ unpacked.stdout = <<>>

(***************************************************************************)
(* Tokenizer properties                                                    *)
(***************************************************************************)
\* C17: the tokenizer is idempotent and closed over its alphabet: every
\* token it outputs is a non-empty string over [a-z0-9'] only, empty input
\* yields the empty sequence, and tokenizing the space-joined output of the
\* tokenizer returns the same token sequence.
C17_ClosedAndIdempotent ==
    /\ kpc \in {"words", "done"} =>
            /\ \A k \in DOMAIN output :
                    /\ Len(output[k]) > 0
                    /\ \A i \in DOMAIN output[k] : output[k][i] \in WordChars
            /\ (input = <<>> => output = <<>>)
    /\ kpc = "done" => again = output

\* a text of an upper-case letter, the dotted capital I, a mark and the
\* Kelvin sign gave two tokens, and they were tokenized again
C17_Witness ==
    /\ kpc = "done"
    /\ input = <<"B", "U+0130", "!", "U+212A">>
    /\ output = <<<<"b", "i">>, <<"k">>>>
    /\ again = output

(***************************************************************************)
(* replacePair properties                                                  *)
(***************************************************************************)
\* the pair stands at positions i and i + 1 of the given stream
MatchAt(i) ==
    /\ i \in 1..(Len(given.stream) - 1)
    /\ given.stream[i] = given.left
    /\ given.stream[i + 1] = given.right

\* how many positions in a row, directly before i, the pair stands at
MatchesBefore(i) ==
    SetMax({k \in 0..(i - 1) : \A j \in 1..k : MatchAt(i - j)})

\* the occurrences taken greedily from the left: an occurrence is taken
\* unless it overlaps the taken one before it
Chosen(i) == MatchAt(i) /\ MatchesBefore(i) % 2 = 0

\* the positions whose token is not the right half of a taken occurrence
Slots == {i \in 1..Len(given.stream) : ~Chosen(i - 1)}

SlotAt(j) == CHOOSE i \in Slots : Cardinality({k \in Slots : k <= i}) = j

\* the new symbol at every taken occurrence, every other token in its order
GreedyReplacement ==
    [j \in 1..Cardinality(Slots) |->
        IF Chosen(SlotAt(j)) THEN given.newSymbol ELSE given.stream[SlotAt(j)]]

\* the maximal runs <<first, last>> of the token left in the given stream
MaximalRuns ==
    {r \in (1..Len(given.stream)) \X (1..Len(given.stream)) :
        /\ r[1] <= r[2]
        /\ \A k \in r[1]..r[2] : given.stream[k] = given.left
        /\ (r[1] = 1 \/ given.stream[r[1] - 1] # given.left)
        /\ (r[2] = Len(given.stream) \/ given.stream[r[2] + 1] # given.left)}

\* where the replacement of position i of the given stream begins: behind
\* the replacement of the tokens before it, which has one token for each of
\* them that is not the right half of a taken occurrence
OffsetOf(i) == Cardinality({k \in Slots : k < i})

\* C20: replacePair replaces every non-overlapping occurrence of (left,
\* right), chosen greedily left to right, with the new symbol and keeps all
\* other tokens in their order; when the new symbol differs from left and
\* right, the result contains no adjacent (left, right) occurrence if left #
\* right, and a maximal run of n equal tokens with left = right becomes
\* floor(n/2) symbols followed by n mod 2 leftover tokens.
C20_GreedyReplacement ==
    rpc = "returned" =>
        /\ replaced = GreedyReplacement
        /\ (given.newSymbol \notin {given.left, given.right} /\ given.left # given.right) =>
               pairFrequency(replaced, given.left, given.right) = 0
        /\ (given.newSymbol \notin {given.left, given.right} /\ given.left = given.right) =>
               \A r \in MaximalRuns :
                   LET n == r[2] - r[1] + 1
                       o == OffsetOf(r[1])
                   IN /\ OffsetOf(r[2] + 1) = o + (n \div 2) + (n % 2)
                      /\ \A j \in 1..(n \div 2) : replaced[o + j] = given.newSymbol
                      /\ n % 2 = 1 => replaced[o + (n \div 2) + 1] = given.left

\* a run of five equal tokens became two symbols and one leftover token
C20_Witness ==
    /\ rpc = "returned"
    /\ given.stream = <<<<"a">>, <<"a">>, <<"a">>, <<"a">>, <<"a">>, <<"b">>>>
    /\ given.left = <<"a">>
    /\ given.right = <<"a">>
    /\ given.newSymbol = <<"1">>
    /\ replaced = <<<<"1">>, <<"1">>, <<"a">>, <<"b">>>>

\* two occurrences of a pair of different tokens were both replaced
C20_WitnessDifferent ==
    /\ rpc = "returned"
    /\ given.stream = <<<<"a">>, <<"a">>, <<"b">>, <<"b">>, <<"a">>, <<"b">>>>
    /\ given.left = <<"a">>
    /\ given.right = <<"b">>
    /\ given.newSymbol = <<"1">>
    /\ replaced = <<<<"a">>, <<"1">>, <<"b">>, <<"1">>>>

(***************************************************************************)
(* Dictionary training properties                                          *)
(***************************************************************************)
\* the prefix contains a character outside [a-z0-9']
PrefixMarked == \E k \in DOMAIN options.prefix : options.prefix[k] \notin WordChars

\* the size of the pool: one glyph for each string of 1 to levels characters
PoolSize ==
    LET n == Len(CoreAlpha) IN (n ^ (options.levels + 1) - n) \div (n - 1)

\* C27: a dictionary produced by train satisfies the round-trip
\* preconditions: for any text and options whose prefix contains a character
\* outside [a-z0-9'], E = train(text, opts) has pairwise distinct phrases and
\* pairwise distinct glyphs, has exactly min(top, number of candidates, pool
\* size) entries, contains no glyph equal to a tokenizer token, and
\* decode(encode(words(text), build(E)), E) = words(text).
C27_TrainedRoundTrip ==
    (epc \in {"trained", "encoded", "decoded"} /\ PrefixMarked) =>
        /\ \A i, j \in DOMAIN trained :
               i # j => (trained[i].phrase # trained[j].phrase /\ trained[i].glyph # trained[j].glyph)
        /\ Len(trained) =
               Min(options.top,
                   Min(Len(mine(normalizeWords(tape), DefaultNMin, options.nMax)), PoolSize))
        /\ \A i \in DOMAIN trained : ~IsRawToken(trained[i].glyph)
        /\ epc = "decoded" => restored = normalizeWords(tape)

\* a dictionary of two or more entries was applied: the encoded words hold
\* a glyph, and decoding gave the words back
C27_Witness ==
    /\ epc = "decoded"
    /\ PrefixMarked
    /\ Len(trained) >= 2
    /\ \E k \in DOMAIN squeezed : squeezed[k] \in {trained[i].glyph : i \in DOMAIN trained}
    /\ Len(squeezed) >= 2
    /\ restored = normalizeWords(tape)

(***************************************************************************)
(* Path codec properties                                                   *)
(***************************************************************************)
\* C30: the varint path codec round-trips: for every valid base-3 path p
\* (including fixed-width addresses with leading zeros and the all-zero
\* path), decodePath(encodePath(p)) = p.
C30_PathRoundTrip == vpc = "decoded" => decodedPath = route

====
